---------------------------- MODULE Spec2Model ----------------------------
(***************************************************************************)
(* Contacts / tasks store of the contact-task application.                 *)
(*                                                                         *)
(* The two collection stores (src/src/services/contacts.ts and             *)
(* src/src/services/tasks.ts) keep a module-level cache each, seeded from  *)
(* a JSON file on first use (src/unnamed/part_000 is the file adapter) and *)
(* written back wholesale after every mutation.  Every exported function   *)
(* of the two services is one action here; the list pipeline               *)
(* (filter, sort, paginate) is a set of operators.                         *)
(*                                                                         *)
(* Representation.  A JavaScript string is a sequence of one-character     *)
(* strings, so that trim, toLowerCase, includes, slice and localeCompare   *)
(* can be computed.  A value that may be null / undefined is a sequence of *)
(* length 0 (absent) or 1 (present).                                       *)
(***************************************************************************)
EXTENDS Integers, Sequences, FiniteSets

(***************************************************************************)
(* Bounds of the model.                                                    *)
(***************************************************************************)
\* number of records seedContacts produces (12000 in the source, line 58)
SeedCount == 1
\* first clock value; seeds and the records of the files are stamped at or
\* before it
StartTime == 2
\* how far the clock may run past StartTime: each call that changes a
\* collection moves it by one, so this is also the number of such calls in a run
MaxTicks == 2
\* how many list queries the user issues while a page is mounted (the first
\* is the one the page makes when it mounts)
MaxLoads == 2
\* how many mutations the user starts while the tasks page is mounted, a
\* retry of a creation that failed not counted
MaxMutations == 1
\* the most toasts a run shows
MaxToasts == 2
\* the most pages the list of a run has
MaxPages == 2
\* how many task operations of one process are under way at once
MaxOverlap == 2

MaxTime == StartTime + MaxTicks

(***************************************************************************)
(* Nullable values.                                                        *)
(***************************************************************************)
Null == <<>>
Some(x) == <<x>>
IsNull(o) == o = <<>>
Val(o) == o[1]
\* a ?? b
OrElse(o, d) == IF o = <<>> THEN d ELSE o[1]

\* no operation under way
NoOp == [pc |-> "idle", op |-> "none", arg |-> Null, json |-> Null, out |-> Null]
NoOps == [p \in 1..MaxOverlap |-> NoOp]

Min(a, b) == IF a < b THEN a ELSE b
Max(a, b) == IF a > b THEN a ELSE b

(***************************************************************************)
(* Strings.                                                                *)
(***************************************************************************)
Digits == <<"0", "1", "2", "3", "4", "5", "6", "7", "8", "9">>
Uppers == <<"A", "B", "C", "D", "E", "F", "G", "H", "I", "J", "K", "L", "M",
            "N", "O", "P", "Q", "R", "S", "T", "U", "V", "W", "X", "Y", "Z">>
Lowers == <<"a", "b", "c", "d", "e", "f", "g", "h", "i", "j", "k", "l", "m",
            "n", "o", "p", "q", "r", "s", "t", "u", "v", "w", "x", "y", "z">>

IndexOf(seq, c) == IF \E i \in 1..Len(seq) : seq[i] = c
                   THEN CHOOSE i \in 1..Len(seq) : seq[i] = c
                   ELSE 0

\* String.prototype.toLowerCase, one character
LowerChar(c) == IF IndexOf(Uppers, c) # 0 THEN Lowers[IndexOf(Uppers, c)] ELSE c

\* normalize(str) = str.toLowerCase()
normalize(s) == [i \in 1..Len(s) |-> LowerChar(s[i])]

IsSpace(c) == c = " "

RECURSIVE TrimLeft(_)
TrimLeft(s) == IF s # <<>> /\ IsSpace(s[1]) THEN TrimLeft(Tail(s)) ELSE s

RECURSIVE TrimRight(_)
TrimRight(s) == IF s # <<>> /\ IsSpace(s[Len(s)])
                THEN TrimRight(SubSeq(s, 1, Len(s) - 1))
                ELSE s

\* String.prototype.trim
trim(s) == TrimRight(TrimLeft(s))

\* String.prototype.includes: sub occurs in s as a contiguous substring
includes(s, sub) ==
    \E i \in 0..(Len(s) - Len(sub)) : SubSeq(s, i + 1, i + Len(sub)) = sub

\* String(n) for an integer n
RECURSIVE NatToString(_)
NatToString(n) == IF n < 10 THEN <<Digits[n + 1]>>
                  ELSE NatToString(n \div 10) \o <<Digits[(n % 10) + 1]>>

IntToString(n) == IF n < 0 THEN <<"-">> \o NatToString(0 - n) ELSE NatToString(n)

IsDigit(c) == IndexOf(Digits, c) # 0

\* Number(s) || 0 for a string: the decimal value of a digit string, and 0 for
\* the empty string or a string that is no number (NaN || 0)
RECURSIVE DigitsValue(_)
DigitsValue(s) == IF s = <<>> THEN 0
                  ELSE 10 * DigitsValue(SubSeq(s, 1, Len(s) - 1))
                       + (IndexOf(Digits, s[Len(s)]) - 1)

NumberOrZero(s) == IF s # <<>> /\ \A i \in 1..Len(s) : IsDigit(s[i])
                   THEN DigitsValue(s)
                   ELSE 0

\* pad(num, size): String(num) with zeros put in front while shorter than size
RECURSIVE padString(_, _)
padString(s, size) == IF Len(s) < size THEN padString(<<"0">> \o s, size) ELSE s

pad(num, size) == padString(IntToString(num), size)

(***************************************************************************)
(* String.prototype.localeCompare, as the root collation orders the        *)
(* characters these collections hold: white space and punctuation before   *)
(* digits before letters; letters compared without case first, and a       *)
(* lower-case letter before its upper-case one only when nothing else      *)
(* differs.  The result is -1, 0 or 1.                                     *)
(***************************************************************************)
Collation == <<" ", "-", ",", ".", "(", ")", "@", "+">> \o Digits \o Lowers

PrimaryWeight(c) == IndexOf(Collation, LowerChar(c))
CaseWeight(c) == IF IndexOf(Uppers, c) # 0 THEN 1 ELSE 0

\* lexicographic comparison of two sequences of numbers: -1, 0 or 1
RECURSIVE LexCompare(_, _)
LexCompare(a, b) ==
    IF a = <<>> /\ b = <<>> THEN 0
    ELSE IF a = <<>> THEN -1
    ELSE IF b = <<>> THEN 1
    ELSE IF a[1] < b[1] THEN -1
    ELSE IF a[1] > b[1] THEN 1
    ELSE LexCompare(Tail(a), Tail(b))

localeCompare(a, b) ==
    LET p == LexCompare([i \in 1..Len(a) |-> PrimaryWeight(a[i])],
                        [i \in 1..Len(b) |-> PrimaryWeight(b[i])])
    IN  IF p # 0 THEN p
        ELSE LexCompare([i \in 1..Len(a) |-> CaseWeight(a[i])],
                        [i \in 1..Len(b) |-> CaseWeight(b[i])])

(***************************************************************************)
(* JavaScript values as the sort comparator sees them: typeof and String.  *)
(***************************************************************************)
JsNumber(n) == [t |-> "number", n |-> n, s |-> <<>>]
JsString(s) == [t |-> "string", n |-> 0, s |-> s]
JsBoolean(b) == [t |-> "boolean", n |-> 0,
                 s |-> IF b THEN <<"t", "r", "u", "e">>
                            ELSE <<"f", "a", "l", "s", "e">>]
JsUndefined == [t |-> "undefined", n |-> 0,
                s |-> <<"u", "n", "d", "e", "f", "i", "n", "e", "d">>]

\* Array.prototype.join(',') of an array of strings, which is String(array)
RECURSIVE JoinComma(_)
JoinComma(arr) == IF arr = <<>> THEN <<>>
                  ELSE IF Len(arr) = 1 THEN arr[1]
                  ELSE arr[1] \o <<",">> \o JoinComma(Tail(arr))

JsArray(arr) == [t |-> "object", n |-> 0, s |-> JoinComma(arr)]

\* String(v)
StringOf(v) == IF v.t = "number" THEN IntToString(v.n) ELSE v.s

\* the enumerated strings of the model ('low' | 'medium' | 'high') as characters
EnumChars(e) == CASE e = "low" -> <<"l", "o", "w">>
                  [] e = "medium" -> <<"m", "e", "d", "i", "u", "m">>
                  [] e = "high" -> <<"h", "i", "g", "h">>

NumberKeys == {"createdAt", "lastActivityAt", "updatedAt"}
StringKeys == {"id", "firstName", "lastName", "email", "phone", "company",
               "city", "state", "contactId", "title"}

\* a[sortBy] for a contact or a task record
FieldValue(rec, key) ==
    IF key \notin DOMAIN rec THEN JsUndefined
    ELSE IF key \in NumberKeys THEN JsNumber(rec[key])
    ELSE IF key \in StringKeys THEN JsString(rec[key])
    ELSE IF key = "tags" THEN JsArray(rec[key])
    ELSE IF key = "completed" THEN JsBoolean(rec[key])
    ELSE IF key = "priority" THEN JsString(EnumChars(rec[key]))
    ELSE IF key = "notes"
         THEN (IF IsNull(rec[key]) THEN JsUndefined ELSE JsString(Val(rec[key])))
    ELSE IF key = "dueDate"
         THEN (IF IsNull(rec[key]) THEN JsUndefined ELSE JsNumber(Val(rec[key])))
    ELSE JsUndefined

\* the body of the comparator before the sort order is applied:
\* av - bv when both are numbers, String(av).localeCompare(String(bv)) otherwise
CompareValues(av, bv) ==
    IF av.t = "number" /\ bv.t = "number" THEN av.n - bv.n
    ELSE localeCompare(StringOf(av), StringOf(bv))

\* a comparator that forgets the sort order
ComparatorNoOrder(a, b, sortBy, sortOrder) ==
    CompareValues(FieldValue(a, sortBy), FieldValue(b, sortBy))

\* (a, b) => sortOrder === 'asc' ? cmp : -cmp
Comparator(a, b, sortBy, sortOrder) ==
    LET cmp == CompareValues(FieldValue(a, sortBy), FieldValue(b, sortBy))
    IN  IF sortOrder = "asc" THEN cmp ELSE 0 - cmp

\* Array.prototype.sort is a stable sort: x goes behind every element that does
\* not compare greater than it
RECURSIVE InsertSorted(_, _, _, _)
InsertSorted(sorted, x, sortBy, sortOrder) ==
    IF sorted = <<>> THEN <<x>>
    ELSE IF Comparator(sorted[Len(sorted)], x, sortBy, sortOrder) <= 0
         THEN Append(sorted, x)
         ELSE Append(InsertSorted(SubSeq(sorted, 1, Len(sorted) - 1), x,
                                  sortBy, sortOrder),
                     sorted[Len(sorted)])

RECURSIVE SortFrom(_, _, _, _)
SortFrom(done, rest, sortBy, sortOrder) ==
    IF rest = <<>> THEN done
    ELSE SortFrom(InsertSorted(done, rest[1], sortBy, sortOrder), Tail(rest),
                  sortBy, sortOrder)

sort(arr, sortBy, sortOrder) == SortFrom(<<>>, arr, sortBy, sortOrder)

\* Array.prototype.filter with the indices kept by keep (a set)
RECURSIVE FilterSeq(_, _, _)
FilterSeq(arr, keep, i) ==
    IF i > Len(arr) THEN <<>>
    ELSE (IF i \in keep THEN <<arr[i]>> ELSE <<>>) \o FilterSeq(arr, keep, i + 1)

\* Array.prototype.slice(start, end): a negative index counts from the end
SliceIndex(i, len) == IF i < 0 THEN Max(len + i, 0) ELSE Min(i, len)

\* a slice that takes the record at end too
sliceThroughEnd(arr, start, end) ==
    SubSeq(arr, SliceIndex(start, Len(arr)) + 1, SliceIndex(end + 1, Len(arr)))

slice(arr, start, end) ==
    SubSeq(arr, SliceIndex(start, Len(arr)) + 1, SliceIndex(end, Len(arr)))


(***************************************************************************)
(* The list pipeline both stores share: sort, then paginate.               *)
(***************************************************************************)
\* a page start that takes page as 0-based
pageStartZeroBased(page, pageSize) == page * pageSize

\* const start = (page - 1) * pageSize
pageStart(page, pageSize) == (page - 1) * pageSize

\* a total that counts the page instead of the filtered list
totalOfPage(filtered, data) == Len(data)

\* const total = filtered.length
totalOf(filtered, data) == Len(filtered)

\* sorted.slice(start, start + pageSize) and the result object
paginate(filtered, sortBy, sortOrder, page, pageSize) ==
    LET sorted == sort(filtered, sortBy, sortOrder)
        start == pageStart(page, pageSize)
        data == slice(sorted, start, start + pageSize)
        total == totalOf(filtered, data)
    IN  [data |-> data, total |-> total, page |-> page, pageSize |-> pageSize,
         hasNext |-> (start + pageSize < total)]

(***************************************************************************)
(* State.                                                                  *)
(***************************************************************************)
VARIABLES
    CONTACTS_CACHE,  \* contacts.ts: Null until seeded, then Some(list)
    TASKS_CACHE,     \* tasks.ts: Null until seeded, then Some(list)
    contactsFile,    \* data/contacts.json: Null when absent, else Some(list)
    tasksFile,       \* data/tasks.json: Null when absent, else Some(list)
    now,             \* the last value Date.now() returned
    horizon,         \* the clock value at which the run under study ends
    res,             \* the outcome of the last call
    repeated,        \* the last call repeated the successful list call before it
    roulette,        \* the failure draw of the last call came below its threshold
    known,           \* what the caller knows from the results of its own writes
    hist,            \* what has happened to contact ids in this process
    fault,           \* the file operation of the last call that failed, or "none"
    controls,        \* contacts page: its controls, toasts and saved preferences
    ops,             \* the task operations of the process that are under way
    mounted,         \* the page the browser shows: "ContactsPage" (part_001),
                     \* "ContactTasksPage" (contacts/[id]/page.tsx), "gone"
                     \* once it is unmounted, "none" when no browser is studied
    loads,           \* the calls of fetchData / loadTasks made so far, each
                     \* with its AbortController; abortRef.current is the last
    ui,              \* React state of the page: data, total, tasks, error, loading
    shown,           \* the call of loads whose answer the list shows; 0: none
    mutation         \* the mutation handler that is running or ran last

storeVars == <<CONTACTS_CACHE, TASKS_CACHE, contactsFile, tasksFile, now, horizon,
               res, repeated, roulette, known, hist, fault>>

clientVars == <<mounted, loads, ui, shown, mutation>>

vars == <<CONTACTS_CACHE, TASKS_CACHE, contactsFile, tasksFile, now, horizon, res,
          repeated, roulette, known, hist, fault, controls, ops, mounted, loads, ui,
          shown, mutation>>

(***************************************************************************)
(* The file adapter (src/unnamed/part_000).  JSON.stringify drops a field  *)
(* whose value is undefined and JSON.parse leaves it absent, which reads   *)
(* as undefined again; numbers, strings, booleans and arrays of strings    *)
(* come back as written.  A file therefore holds the list it was given.    *)
(***************************************************************************)
readJson(file) == file

writeJsonEmpty(data) == Some(<<>>)

writeJson(data) == Some(data)

(***************************************************************************)
(* Contacts (src/src/services/contacts.ts).                                *)
(***************************************************************************)
sAlex == <<"A", "l", "e", "x">>
sKim == <<"K", "i", "m">>
sOrchid == <<"O", "r", "c", "h", "i", "d">>
sAustin == <<"A", "u", "s", "t", "i", "n">>
sTX == <<"T", "X">>
sVip == <<"v", "i", "p">>
sAda == <<"A", "d", "a">>
sLi == <<"L", "i">>
sBoSpaced == <<" ", "B", "o", " ">>
sBo == <<"B", "o">>
sMailA == <<"a", "@", "x">>
sMailAUpper == <<"A", "@", "X">>
sMailB == <<"b", "@", "x">>

ContactId(n) == <<"C">> \o pad(n, 5)

\* what the random draws of seedContacts may give for one record: the first
\* name, the age now - createdAt, and lastActivityAt - createdAt, which is
\* floor(random * age) and so below age unless age is 0
SeedDraws == {[firstName |-> sAlex, age |-> a, act |-> 0] : a \in {0, 1}}

seedContact(i, d, t) ==
    [id |-> ContactId(i),
     firstName |-> d.firstName,
     lastName |-> sKim,
     email |-> normalize(d.firstName) \o <<".">> \o normalize(sKim)
               \o IntToString(i) \o <<"@">> \o normalize(sOrchid)
               \o <<".", "c", "o", "m">>,
     phone |-> <<"+", "1", "-", "(">> \o IntToString(100 + (i % 900))
               \o <<")", "-">> \o pad(i % 1000, 3) \o <<"-">>
               \o pad((i * 7) % 10000, 4),
     company |-> sOrchid,
     city |-> sAustin,
     state |-> sTX,
     tags |-> <<sVip>>,
     createdAt |-> t - d.age,
     lastActivityAt |-> (t - d.age) + d.act]

\* seedContacts(count): every list the draws can give at time t
seedContacts(count, t) ==
    {[i \in 1..count |-> seedContact(i, draws[i], t)] :
        draws \in [1..count -> SeedDraws]}

\* an ensureSeeded that seeds again on every call
ensureSeededContactsAlways(cache, file, t) ==
    {[cache |-> Some(s), file |-> writeJson(s)] : s \in seedContacts(SeedCount, t)}

\* ensureSeeded: the cache and the file it leaves, one outcome per seed draw
ensureSeededContacts(cache, file, t) ==
    IF ~IsNull(cache) THEN {[cache |-> cache, file |-> file]}
    ELSE LET existing == readJson(file)
         IN  IF ~IsNull(existing) /\ Len(Val(existing)) # 0
             THEN {[cache |-> Some(Val(existing)), file |-> file]}
             ELSE {[cache |-> Some(s), file |-> writeJson(s)] :
                      s \in seedContacts(SeedCount, t)}

\* the filter callback of listContacts
ContactPasses(c, qn) ==
    \/ qn = <<>>
    \/ includes(normalize(c.firstName \o <<" ">> \o c.lastName), qn)
    \/ includes(normalize(c.email), qn)
    \/ includes(normalize(c.company), qn)
    \/ includes(normalize(c.city), qn)
    \/ includes(normalize(c.state), qn)
    \/ \E i \in 1..Len(c.tags) : includes(normalize(c.tags[i]), qn)

\* listContacts after ensureSeeded and the failure draw
listContactsResult(contacts, params) ==
    LET q == OrElse(params.q, <<>>)
        sortBy == OrElse(params.sortBy, "lastActivityAt")
        sortOrder == OrElse(params.sortOrder, "desc")
        page == OrElse(params.page, 1)
        pageSize == OrElse(params.pageSize, 50)
        qn == normalize(q)
        filtered == FilterSeq(contacts,
                              {i \in 1..Len(contacts) : ContactPasses(contacts[i], qn)},
                              1)
    IN  paginate(filtered, sortBy, sortOrder, page, pageSize)

\* the number of the first record only
MaxIdNumberFirst(records) ==
    IF records = <<>> THEN 0 ELSE NumberOrZero(Tail(records[1].id))

\* contacts.reduce((m, c) => Math.max(m, Number(c.id.slice(1)) || 0), 0)
RECURSIVE MaxIdNumber(_)
MaxIdNumber(records) ==
    IF records = <<>> THEN 0
    ELSE Max(MaxIdNumber(SubSeq(records, 1, Len(records) - 1)),
             NumberOrZero(Tail(records[Len(records)].id)))

\* an id allocation that counts the records instead
nextContactIdByCount(contacts) == <<"C">> \o pad(Len(contacts) + 1, 5)

nextContactId(contacts) == <<"C">> \o pad(MaxIdNumber(contacts) + 1, 5)

\* findIndex: the first index whose record has the id, 0 for -1
FindIndex(records, id) ==
    IF \E i \in 1..Len(records) : records[i].id = id
    THEN CHOOSE i \in 1..Len(records) :
            /\ records[i].id = id
            /\ \A j \in 1..(i - 1) : records[j].id # id
    ELSE 0

\* a removal that removes nothing
RemoveNothing(records, idx) == records

\* splice(idx, 1)
RemoveAt(records, idx) ==
    SubSeq(records, 1, idx - 1) \o SubSeq(records, idx + 1, Len(records))

Result(op, status, arg, out, prev) ==
    [op |-> op, status |-> status, arg |-> arg, out |-> out, prev |-> prev]


\* ContactCreateInput values the model tries
ContactInputs ==
    {[firstName |-> sAda, lastName |-> sLi, email |-> sMailA, phone |-> Null,
      company |-> Null, city |-> Null, state |-> Null, tags |-> Null],
     [firstName |-> sBoSpaced, lastName |-> sKim, email |-> sMailAUpper,
      phone |-> Null, company |-> Some(sOrchid), city |-> Some(sAustin),
      state |-> Some(sTX), tags |-> Some(<<sVip>>)],
     [firstName |-> <<" ">>, lastName |-> sLi, email |-> sMailB, phone |-> Null,
      company |-> Null, city |-> Null, state |-> Null, tags |-> Null]}

\* the record createContact builds (lines 234-246)
newContact(contacts, input, t) ==
    [id |-> nextContactId(contacts),
     firstName |-> trim(input.firstName),
     lastName |-> trim(input.lastName),
     email |-> trim(input.email),
     phone |-> OrElse(input.phone, <<>>),
     company |-> OrElse(input.company, <<>>),
     city |-> OrElse(input.city, <<>>),
     state |-> OrElse(input.state, <<>>),
     tags |-> OrElse(input.tags, <<>>),
     createdAt |-> t,
     lastActivityAt |-> t]

\* an unknown id, and the ids a caller may hold
UnknownContactId == ContactId(77)

ContactIdsOf(cache) ==
    IF IsNull(cache) THEN {} ELSE {Val(cache)[i].id : i \in 1..Len(Val(cache))}

KnownContactIds == ContactIdsOf(CONTACTS_CACHE) \cup {UnknownContactId}

ContactIdInputs == KnownContactIds \cup hist.removed

\* the clock in a call that changes a collection: time has passed since the
\* last such call (the calls run one after the other, and each awaits a file
\* write or a setTimeout of 100 ms or more); the model draws the next value
ClockDraws == {t \in {now + 1} : t <= horizon}

\* the simulated failure draw, Math.random() < p
FailureDraws == {TRUE, FALSE}

ListContacts(params) ==
    \E sd \in ensureSeededContacts(CONTACTS_CACHE, contactsFile, now) :
    \E fails \in FailureDraws :
        /\ CONTACTS_CACHE' = sd.cache
        /\ contactsFile' = sd.file
        /\ res' = IF fails
                  THEN Result("listContacts", "TransientError", Some(params), Null, Null)
                  ELSE Result("listContacts", "ok", Some(params),
                              Some(listContactsResult(Val(sd.cache), params)), Null)
        /\ UNCHANGED <<TASKS_CACHE, tasksFile, now, horizon, hist>>
        /\ roulette' = fails

GetContact(id) ==
    \E sd \in ensureSeededContacts(CONTACTS_CACHE, contactsFile, now) :
    \E fails \in FailureDraws :
        LET idx == FindIndex(Val(sd.cache), id)
        IN  /\ CONTACTS_CACHE' = sd.cache
            /\ contactsFile' = sd.file
            /\ res' = IF fails
                      THEN Result("getContact", "TransientError", Some(id), Null, Null)
                      ELSE IF idx = 0
                      THEN Result("getContact", "NotFoundError", Some(id), Null, Null)
                      ELSE Result("getContact", "ok", Some(id),
                                  Some(Val(sd.cache)[idx]), Null)
            /\ UNCHANGED <<TASKS_CACHE, tasksFile, now, horizon, hist>>
            /\ roulette' = fails

\* an email check that compares the emails as written
emailTakenExact(contacts, email) ==
    \E i \in 1..Len(contacts) : contacts[i].email = email

\* contacts.some((c) => c.email.toLowerCase() === email.toLowerCase())
emailTaken(contacts, email) ==
    \E i \in 1..Len(contacts) : normalize(contacts[i].email) = normalize(email)

CreateContact(input) ==
    \E sd \in ensureSeededContacts(CONTACTS_CACHE, contactsFile, now) :
        LET contacts == Val(sd.cache)
            firstName == trim(input.firstName)
            lastName == trim(input.lastName)
            email == trim(input.email)
            invalid == firstName = <<>> \/ lastName = <<>> \/ email = <<>>
            taken == emailTaken(contacts, email)
        IN  /\ UNCHANGED <<TASKS_CACHE, tasksFile, horizon>>
            /\ roulette' = FALSE
            /\ IF invalid \/ taken
               THEN /\ CONTACTS_CACHE' = sd.cache
                    /\ contactsFile' = sd.file
                    /\ res' = Result("createContact", "ValidationError",
                                     Some(input), Null, Null)
                    /\ UNCHANGED <<now, hist>>
               ELSE \E t \in ClockDraws :
                    LET contact == newContact(contacts, input, t)
                        next == <<contact>> \o contacts
                    IN  /\ now' = t
                        /\ CONTACTS_CACHE' = Some(next)
                        /\ contactsFile' = writeJson(next)
                        /\ res' = Result("createContact", "ok", Some(input),
                                         Some(contact), Some(contacts))
                        /\ hist' = [hist EXCEPT
                                      !.created = @ \cup {contact.id},
                                      !.tasked = @ \ {contact.id},
                                      !.cascaded = @ \ {contact.id},
                                      !.removed = @ \ {contact.id}]

\* a cascade that writes back what it read
cascadeFileUnfiltered(file, id) == writeJson(OrElse(readJson(file), <<>>))

\* the cascade of deleteContact: the task file read, filtered and written back
cascadeFile(file, id) ==
    LET tasks == OrElse(readJson(file), <<>>)
    IN  writeJson(FilterSeq(tasks, {i \in 1..Len(tasks) : tasks[i].contactId # id}, 1))

\* the file operations of deleteContact that can fail: the write of the
\* contact file, and in the cascade the read and the write of the task file
DeleteFaults == {"none", "contactsWrite", "tasksRead", "tasksWrite"}

swallowedNone(io) == FALSE

\* the try / catch around the cascade: what is thrown inside is dropped
swallowed(io) == io \in {"tasksRead", "tasksWrite"}

\* deleteContact, with the file operation that fails in it; a write that
\* fails leaves its file as it was
DeleteContactIo(id, io) ==
    \E sd \in ensureSeededContacts(CONTACTS_CACHE, contactsFile, now) :
        LET contacts == Val(sd.cache)
            idx == FindIndex(contacts, id)
        IN  /\ UNCHANGED <<TASKS_CACHE, horizon>>
            /\ roulette' = FALSE
            /\ IF idx = 0
               THEN /\ CONTACTS_CACHE' = sd.cache
                    /\ contactsFile' = sd.file
                    /\ res' = Result("deleteContact", "NotFoundError", Some(id),
                                     Null, Null)
                    /\ UNCHANGED <<tasksFile, now, hist>>
               ELSE IF io = "contactsWrite"
               THEN \* the contact is spliced out, then writeJson throws
                    /\ now' \in ClockDraws
                    /\ CONTACTS_CACHE' = Some(RemoveAt(contacts, idx))
                    /\ contactsFile' = sd.file
                    /\ res' = Result("deleteContact", "IOError", Some(id), Null, Null)
                    /\ UNCHANGED <<tasksFile, hist>>
               ELSE IF io # "none" /\ ~swallowed(io)
               THEN /\ now' \in ClockDraws
                    /\ CONTACTS_CACHE' = Some(RemoveAt(contacts, idx))
                    /\ contactsFile' = writeJson(RemoveAt(contacts, idx))
                    /\ res' = Result("deleteContact", "IOError", Some(id), Null, Null)
                    /\ UNCHANGED <<tasksFile, hist>>
               ELSE /\ now' \in ClockDraws
                    /\ CONTACTS_CACHE' = Some(RemoveAt(contacts, idx))
                    /\ contactsFile' = writeJson(RemoveAt(contacts, idx))
                    /\ tasksFile' = IF io = "none" THEN cascadeFile(tasksFile, id)
                                    ELSE tasksFile
                    /\ res' = Result("deleteContact", "ok", Some(id), Some(TRUE),
                                     Null)
                    /\ hist' = [hist EXCEPT
                                  !.cascaded = IF id \in hist.tasked /\ io = "none"
                                               THEN @ \cup {id} ELSE @,
                                  !.created = @ \ {id},
                                  !.tasked = @ \ {id},
                                  !.removed = @ \cup {id}]

\* deleteContact with every file operation succeeding
DeleteContact(id) == DeleteContactIo(id, "none")


(***************************************************************************)
(* Tasks (src/src/services/tasks.ts).                                      *)
(***************************************************************************)
sCall == <<"C", "a", "l", "l">>
sHiSpaced == <<" ", "H", "i", " ">>
sHi == <<"H", "i">>
sGoSpaced == <<" ", "G", "o", " ">>
sBlank == <<" ", " ">>
sNoteVip == <<"V", "i", "p">>

\* title.length > 120 is rejected
MaxTitleLength == 120
sTooLong == [i \in 1..(MaxTitleLength + 1) |-> "x"]

TaskId(n) == <<"T">> \o pad(n, 5)

\* seedTasks(count): createTask's store starts with seedTasks(0), the empty list
seedTasks(count) == <<>>

\* an ensureSeeded that loads the file on every call
ensureSeededTasksReload(cache, file) ==
    IF ~IsNull(readJson(file)) THEN [cache |-> Some(Val(readJson(file))), file |-> file]
    ELSE [cache |-> Some(seedTasks(0)), file |-> writeJson(seedTasks(0))]

\* ensureSeeded of the task store: the cache and the file it leaves
ensureSeededTasks(cache, file) ==
    IF ~IsNull(cache) THEN [cache |-> cache, file |-> file]
    ELSE LET existing == readJson(file)
         IN  IF ~IsNull(existing)
             THEN [cache |-> Some(Val(existing)), file |-> file]
             ELSE [cache |-> Some(seedTasks(0)), file |-> writeJson(seedTasks(0))]

\* a filter callback that does not look at completed
TaskPassesAnyCompleted(t, contactId, completed, qn) ==
    IF ~IsNull(contactId) /\ Val(contactId) # <<>> /\ t.contactId # Val(contactId)
    THEN FALSE
    ELSE IF qn = <<>> THEN TRUE
    ELSE \/ includes(normalize(t.title), qn)
         \/ (~IsNull(t.notes) /\ Val(t.notes) # <<>>
             /\ includes(normalize(Val(t.notes)), qn))

\* the filter callback of listTasks: an empty contactId is falsy and filters
\* nothing, and so are notes that are undefined or empty
TaskPasses(t, contactId, completed, qn) ==
    IF ~IsNull(contactId) /\ Val(contactId) # <<>> /\ t.contactId # Val(contactId)
    THEN FALSE
    ELSE IF ~IsNull(completed) /\ t.completed # Val(completed) THEN FALSE
    ELSE IF qn = <<>> THEN TRUE
    ELSE \/ includes(normalize(t.title), qn)
         \/ (~IsNull(t.notes) /\ Val(t.notes) # <<>>
             /\ includes(normalize(Val(t.notes)), qn))

\* listTasks after ensureSeeded and the failure draw
listTasksResult(tasks, params) ==
    LET q == OrElse(params.q, <<>>)
        sortBy == OrElse(params.sortBy, "updatedAt")
        sortOrder == OrElse(params.sortOrder, "desc")
        page == OrElse(params.page, 1)
        pageSize == OrElse(params.pageSize, 50)
        qn == normalize(q)
        filtered == FilterSeq(tasks,
                              {i \in 1..Len(tasks) :
                                  TaskPasses(tasks[i], params.contactId,
                                             params.completed, qn)},
                              1)
    IN  paginate(filtered, sortBy, sortOrder, page, pageSize)

\* a default priority of 'low'
defaultPriorityLow(priority) == OrElse(priority, "low")

\* input.priority ?? 'medium'
defaultPriority(priority) == OrElse(priority, "medium")

\* the record createTask builds (lines 172-186)
newTask(tasks, input, title, t) ==
    [id |-> <<"T">> \o pad(MaxIdNumber(tasks) + 1, 5),
     contactId |-> input.contactId,
     title |-> title,
     notes |-> input.notes,
     dueDate |-> input.dueDate,
     completed |-> FALSE,
     priority |-> defaultPriority(input.priority),
     createdAt |-> t,
     updatedAt |-> t]

\* an update that copies every field of the payload, given or not
updatedTaskCopyAll(prev, updates, t) ==
    [prev EXCEPT
        !.title = IF ~IsNull(updates.title) /\ trim(Val(updates.title)) # <<>>
                  THEN trim(Val(updates.title)) ELSE prev.title,
        !.notes = updates.notes,
        !.dueDate = updates.dueDate,
        !.completed = IF ~IsNull(updates.completed) THEN Val(updates.completed)
                      ELSE prev.completed,
        !.priority = OrElse(updates.priority, prev.priority),
        !.updatedAt = t]

\* an update that takes the notes of the payload, given or not
updatedTaskCopyNotes(prev, updates, t) ==
    [updatedTaskCopyAll(prev, updates, t) EXCEPT
        !.dueDate = IF ~IsNull(updates.dueDate) THEN updates.dueDate
                    ELSE prev.dueDate]

\* an update that takes the trimmed title even when it is empty
updatedTaskBlankTitle(prev, updates, t) ==
    [updatedTaskCopyAll(prev, updates, t) EXCEPT
        !.title = IF ~IsNull(updates.title) THEN trim(Val(updates.title))
                  ELSE prev.title,
        !.notes = IF ~IsNull(updates.notes) THEN updates.notes ELSE prev.notes,
        !.dueDate = IF ~IsNull(updates.dueDate) THEN updates.dueDate
                    ELSE prev.dueDate]

\* the record updateTask builds (lines 201-209)
updatedTask(prev, updates, t) ==
    [prev EXCEPT
        !.title = IF ~IsNull(updates.title)
                  THEN (IF trim(Val(updates.title)) # <<>>
                        THEN trim(Val(updates.title)) ELSE prev.title)
                  ELSE prev.title,
        !.notes = IF ~IsNull(updates.notes) THEN updates.notes ELSE prev.notes,
        !.dueDate = IF ~IsNull(updates.dueDate) THEN updates.dueDate
                    ELSE prev.dueDate,
        !.completed = IF ~IsNull(updates.completed) THEN Val(updates.completed)
                      ELSE prev.completed,
        !.priority = IF ~IsNull(updates.priority) THEN Val(updates.priority)
                     ELSE prev.priority,
        !.updatedAt = t]

\* TaskCreateInput values the model tries, for a contact id
TaskInputsFor(contactId) ==
    {[contactId |-> contactId, title |-> Some(sCall), notes |-> Null,
      dueDate |-> Null, priority |-> Null],
     [contactId |-> contactId, title |-> Some(sHiSpaced), notes |-> Some(sNoteVip),
      dueDate |-> Some(StartTime + 1), priority |-> Some("high")],
     [contactId |-> contactId, title |-> Some(sBlank), notes |-> Null,
      dueDate |-> Null, priority |-> Null],
     [contactId |-> contactId, title |-> Some(sTooLong), notes |-> Null,
      dueDate |-> Null, priority |-> Some("low")]}

OnlyCompleted == [title |-> Null, notes |-> Null, dueDate |-> Null,
                  completed |-> Some(TRUE), priority |-> Null]

\* TaskUpdateInput values the model tries
TaskUpdates ==
    {OnlyCompleted,
     [title |-> Some(sBlank), notes |-> Null, dueDate |-> Null,
      completed |-> Some(FALSE), priority |-> Null],
     [title |-> Some(sGoSpaced), notes |-> Some(<<>>), dueDate |-> Some(1),
      completed |-> Null, priority |-> Some("low")]}

UnknownTaskId == TaskId(77)

TaskIdsOf(cache) ==
    IF IsNull(cache) THEN {} ELSE {Val(cache)[i].id : i \in 1..Len(Val(cache))}

TaskIdInputs == TaskIdsOf(TASKS_CACHE) \cup {UnknownTaskId}

ListTasks(params) ==
    LET sd == ensureSeededTasks(TASKS_CACHE, tasksFile)
    IN  \E fails \in FailureDraws :
        /\ TASKS_CACHE' = sd.cache
        /\ tasksFile' = sd.file
        /\ res' = IF fails
                  THEN Result("listTasks", "TransientError", Some(params), Null, Null)
                  ELSE Result("listTasks", "ok", Some(params),
                              Some(listTasksResult(Val(sd.cache), params)), Null)
        /\ UNCHANGED <<CONTACTS_CACHE, contactsFile, now, horizon, hist>>
        /\ roulette' = fails

\* a simulated failure thrown after the list was changed
failedWriteAfter(tasks, attempted) == attempted

\* a failure thrown after the push of createTask (line 187)
failedWritePushed(tasks, attempted) == attempted

\* a failure that leaves the list empty
failedWriteEmpty(tasks, attempted) == <<>>

\* the simulated failure of a write is thrown before the list is touched
\* (lines 170, 195, 219): the list stays, whatever the call went on to do
failedWrite(tasks, attempted) == tasks

\* outcomes of a createTask that does not look the contact up
createTaskOutcomesAnyContact(found, title) ==
    IF title = <<>> \/ Len(title) > 120 THEN {"ValidationError"}
    ELSE {"TransientError", "ok"}

\* how createTask may end for an input: the contact lookup throws (a simulated
\* failure of getContact, or no such contact) and is reported as a
\* ValidationError; else the title is checked; else the failure draw decides
createTaskOutcomes(found, title) ==
    IF ~found THEN {"ValidationError"}
    ELSE IF title = <<>> \/ Len(title) > MaxTitleLength THEN {"ValidationError"}
    ELSE {"ValidationError", "TransientError", "ok"}

CreateTask(input) ==
    LET sd == ensureSeededTasks(TASKS_CACHE, tasksFile)
        tasks == Val(sd.cache)
    IN  \E cs \in ensureSeededContacts(CONTACTS_CACHE, contactsFile, now) :
        LET found == FindIndex(Val(cs.cache), input.contactId) # 0
            title == IF IsNull(input.title) THEN <<>> ELSE trim(Val(input.title))
        IN  \E error \in createTaskOutcomes(found, title) :
            /\ UNCHANGED horizon
            /\ roulette' = (error = "TransientError")
            /\ CONTACTS_CACHE' = cs.cache
            /\ contactsFile' = cs.file
            /\ IF error # "ok"
               THEN /\ TASKS_CACHE' =
                        IF error = "TransientError"
                        THEN Some(failedWrite(tasks,
                                  Append(tasks, newTask(tasks, input, title, now))))
                        ELSE sd.cache
                    /\ tasksFile' = sd.file
                    /\ res' = Result("createTask", error, Some(input), Null, Null)
                    /\ UNCHANGED <<now, hist>>
               ELSE \E t \in ClockDraws :
                    LET task == newTask(tasks, input, title, t)
                    IN  /\ now' = t
                        /\ TASKS_CACHE' = Some(Append(tasks, task))
                        /\ tasksFile' = writeJson(Append(tasks, task))
                        /\ res' = Result("createTask", "ok", Some(input),
                                         Some(task), Some(tasks))
                        /\ hist' = [hist EXCEPT
                                      !.tasked = IF input.contactId \in hist.created
                                                 THEN @ \cup {input.contactId}
                                                 ELSE @]

UpdateTask(id, updates) ==
    LET sd == ensureSeededTasks(TASKS_CACHE, tasksFile)
        tasks == Val(sd.cache)
        idx == FindIndex(tasks, id)
    IN  \E fails \in FailureDraws :
        /\ UNCHANGED <<CONTACTS_CACHE, contactsFile, horizon, hist>>
        /\ roulette' = fails
        /\ IF fails \/ idx = 0
           THEN /\ TASKS_CACHE' =
                    IF fails /\ idx # 0
                    THEN Some(failedWrite(tasks,
                              [tasks EXCEPT ![idx] = updatedTask(tasks[idx], updates, now)]))
                    ELSE sd.cache
                /\ tasksFile' = sd.file
                /\ res' = Result("updateTask",
                                 IF fails THEN "TransientError" ELSE "NotFoundError",
                                 Some(<<id, updates>>), Null, Null)
                /\ UNCHANGED now
           ELSE \E t \in ClockDraws :
                LET next == updatedTask(tasks[idx], updates, t)
                IN  /\ now' = t
                    /\ TASKS_CACHE' = Some([tasks EXCEPT ![idx] = next])
                    /\ tasksFile' = writeJson([tasks EXCEPT ![idx] = next])
                    /\ res' = Result("updateTask", "ok", Some(<<id, updates>>),
                                     Some(next), Some(tasks[idx]))

DeleteTask(id) ==
    LET sd == ensureSeededTasks(TASKS_CACHE, tasksFile)
        tasks == Val(sd.cache)
        idx == FindIndex(tasks, id)
    IN  \E fails \in FailureDraws :
        /\ UNCHANGED <<CONTACTS_CACHE, contactsFile, horizon, hist>>
        /\ roulette' = fails
        /\ IF fails \/ idx = 0
           THEN /\ TASKS_CACHE' =
                    IF fails /\ idx # 0
                    THEN Some(failedWrite(tasks, RemoveAt(tasks, idx)))
                    ELSE sd.cache
                /\ tasksFile' = sd.file
                /\ res' = Result("deleteTask",
                                 IF fails THEN "TransientError" ELSE "NotFoundError",
                                 Some(id), Null, Null)
                /\ UNCHANGED now
           ELSE /\ now' \in ClockDraws
                /\ TASKS_CACHE' = Some(RemoveAt(tasks, idx))
                /\ tasksFile' = writeJson(RemoveAt(tasks, idx))
                /\ res' = Result("deleteTask", "ok", Some(id), Some(TRUE), Null)


(***************************************************************************)
(* The HTTP routes (src/src/app/api): each calls one service function and  *)
(* picks the status of the answer from the outcome, for an error from the  *)
(* start of its message.                                                   *)
(***************************************************************************)
sValidationError ==
    <<"V", "a", "l", "i", "d", "a", "t", "i", "o", "n", "E", "r", "r", "o",
      "r">>
sNotFoundError ==
    <<"N", "o", "t", "F", "o", "u", "n", "d", "E", "r", "r", "o", "r">>
sTransientError ==
    <<"T", "r", "a", "n", "s", "i", "e", "n", "t", "E", "r", "r", "o", "r">>
sContactFieldsRequired ==
    <<":", " ", "f", "i", "r", "s", "t", "N", "a", "m", "e", ",", " ", "l",
      "a", "s", "t", "N", "a", "m", "e", ",", " ", "e", "m", "a", "i", "l",
      " ", "r", "e", "q", "u", "i", "r", "e", "d">>
sContactNotFound ==
    <<":", " ", "c", "o", "n", "t", "a", "c", "t", " ", "n", "o", "t", " ",
      "f", "o", "u", "n", "d">>
sContactDoesNotExist ==
    <<":", " ", "c", "o", "n", "t", "a", "c", "t", " ", "d", "o", "e", "s",
      " ", "n", "o", "t", " ", "e", "x", "i", "s", "t">>
sTaskNotFound ==
    <<":", " ", "t", "a", "s", "k", " ", "n", "o", "t", " ", "f", "o", "u",
      "n", "d">>
sNetworkFailure ==
    <<":", " ", "s", "i", "m", "u", "l", "a", "t", "e", "d", " ", "n", "e",
      "t", "w", "o", "r", "k", " ", "f", "a", "i", "l", "u", "r", "e">>
sMutationFailure ==
    <<":", " ", "s", "i", "m", "u", "l", "a", "t", "e", " ", "m", "u", "t",
      "a", "t", "i", "o", "n", " ", "f", "a", "i", "l", "u", "r", "e">>

\* the message of the Error a service function throws, for the kind of
\* failure the call ended with (the first message of that kind in the
\* function)
errorMessage(op, status) ==
    CASE status = "TransientError" ->
            sTransientError \o (IF op \in {"listContacts", "getContact", "listTasks"}
                                THEN sNetworkFailure ELSE sMutationFailure)
      [] status = "NotFoundError" ->
            sNotFoundError \o (IF op \in {"getContact", "deleteContact"}
                               THEN sContactNotFound ELSE sTaskNotFound)
      [] status = "ValidationError" ->
            sValidationError \o (IF op = "createContact"
                                 THEN sContactFieldsRequired
                                 ELSE sContactDoesNotExist)

\* a test of the prefix that holds only for the whole message
startsWithWhole(s, prefix) == s = prefix

\* String.prototype.startsWith
startsWith(s, prefix) ==
    Len(s) >= Len(prefix) /\ SubSeq(s, 1, Len(prefix)) = prefix

\* a list route that answers 200 whatever the outcome
listRouteStatusOk(status) == 200

\* GET /api/contacts and GET /api/tasks: every error is a 503
listRouteStatus(status) == IF status = "ok" THEN 200 ELSE 503

\* the status the route of a service function answers with
routeStatus(op, status) ==
    IF op \in {"listContacts", "listTasks"} THEN listRouteStatus(status)
    ELSE IF status = "ok"
    THEN (IF op \in {"createContact", "createTask"} THEN 201 ELSE 200)
    ELSE LET msg == errorMessage(op, status)
         IN  CASE op = "createContact" ->
                    IF startsWith(msg, sValidationError) THEN 400 ELSE 503
               [] op \in {"getContact", "deleteContact", "deleteTask"} ->
                    IF startsWith(msg, sNotFoundError) THEN 404 ELSE 503
               [] op \in {"createTask", "updateTask"} ->
                    IF startsWith(msg, sValidationError) THEN 400
                    ELSE IF startsWith(msg, sNotFoundError) THEN 404
                    ELSE 503

\* the status of the answer to the last call, made through its route
httpStatus == routeStatus(res.op, res.status)

(***************************************************************************)
(* The controls of the contacts page (src/unnamed/part_001): the search    *)
(* text, the sort field and order, the page and its size, the row density, *)
(* the toasts and the preferences kept in localStorage.  A step is one     *)
(* event handler together with the effects that run after the render it    *)
(* causes.                                                                 *)
(***************************************************************************)
Densities == {"comfortable", "compact"}
SortFields == {"firstName", "lastName", "company", "city", "state", "createdAt",
               "lastActivityAt"}
SortOrders == {"asc", "desc"}
\* the options of the page size select
PageSizes == {25, 50, 100}

sPreferencesCleared == <<"P", "r", "e", "f", "e", "r", "e", "n", "c", "e", "s", " ",
                         "c", "l", "e", "a", "r", "e", "d">>
sA == <<"a">>
sMany == <<"m", "a", "n", "y">>

\* localStorage without the keys of the page
NoStorage ==
    [contactsRowDensity |-> Null, contactsSortBy |-> Null, contactsSortOrder |-> Null,
     contactsPageSize |-> Null, contactsQuery |-> Null]

\* what localStorage can hold when the page is opened: nothing, the
\* preferences of an earlier visit, or values the page never wrote
SavedPreferences ==
    {NoStorage,
     [contactsRowDensity |-> Some("compact"), contactsSortBy |-> Some("firstName"),
      contactsSortOrder |-> Some("asc"), contactsPageSize |-> Some(NatToString(25)),
      contactsQuery |-> Some(sA)],
     [contactsRowDensity |-> Some("cozy"), contactsSortBy |-> Some("email"),
      contactsSortOrder |-> Some("up"), contactsPageSize |-> Some(sMany),
      contactsQuery |-> Some(<<>>)]}

NoEvent == [event |-> "none", key |-> "", typing |-> FALSE, modified |-> FALSE]
Event(name) == [NoEvent EXCEPT !.event = name]

\* the state of the first render (the useState initial values, lines 100-124)
NoControls(storage) ==
    [phase |-> "rendered", q |-> <<>>, sortBy |-> "lastActivityAt",
     sortOrder |-> "desc", page |-> 1, pageSize |-> 50, density |-> "comfortable",
     toasts |-> <<>>, timers |-> {}, made |-> 0, storage |-> storage,
     last |-> NoEvent, was |-> "comfortable"]

\* !Number.isNaN(Number(ps)) for a stored string that is not empty
isNumber(s) == \A i \in 1..Len(s) : IsDigit(s[i])

\* the effects that read the saved preferences (lines 205-211, 218-232,
\* 246-250)
restored(c) ==
    LET st == c.storage
    IN  [c EXCEPT
           !.density = IF st.contactsRowDensity \in {Some("comfortable"), Some("compact")}
                       THEN Val(st.contactsRowDensity) ELSE @,
           !.sortBy = IF ~IsNull(st.contactsSortBy) /\ Val(st.contactsSortBy) \in SortFields
                      THEN Val(st.contactsSortBy) ELSE @,
           !.sortOrder = IF st.contactsSortOrder \in {Some("asc"), Some("desc")}
                         THEN Val(st.contactsSortOrder) ELSE @,
           !.pageSize = IF ~IsNull(st.contactsPageSize)
                           /\ Val(st.contactsPageSize) # <<>>
                           /\ isNumber(Val(st.contactsPageSize))
                        THEN DigitsValue(Val(st.contactsPageSize)) ELSE @,
           !.q = IF ~IsNull(st.contactsQuery) THEN Val(st.contactsQuery) ELSE @]

\* every preference written to localStorage (the effects of lines 212-215,
\* 235-243 and 251-253 when all of them run)
savedAll(c) ==
    [contactsRowDensity |-> Some(c.density), contactsSortBy |-> Some(c.sortBy),
     contactsSortOrder |-> Some(c.sortOrder),
     contactsPageSize |-> Some(NatToString(c.pageSize)),
     contactsQuery |-> Some(c.q)]

\* the same effects after a render: each runs when its value has changed
saved(old, new, storage) ==
    [contactsRowDensity |-> IF new.density # old.density THEN Some(new.density)
                            ELSE storage.contactsRowDensity,
     contactsSortBy |-> IF new.sortBy # old.sortBy THEN Some(new.sortBy)
                        ELSE storage.contactsSortBy,
     contactsSortOrder |-> IF new.sortOrder # old.sortOrder THEN Some(new.sortOrder)
                           ELSE storage.contactsSortOrder,
     contactsPageSize |-> IF new.pageSize # old.pageSize
                          THEN Some(NatToString(new.pageSize))
                          ELSE storage.contactsPageSize,
     contactsQuery |-> IF new.q # old.q THEN Some(new.q) ELSE storage.contactsQuery]

\* the render after a handler: the new state, the effects it triggers, and
\* what the event was
rendered(new, storage, event) ==
    [new EXCEPT !.storage = saved(controls, new, storage),
                !.last = event,
                !.was = controls.density]

Handled(new, event) == controls' = rendered(new, controls.storage, event)

\* the effects of the first render: the saved preferences are read and the
\* state is written back
MountEffects ==
    /\ controls.phase = "rendered"
    /\ controls' = [restored(controls) EXCEPT
                        !.phase = "mounted",
                        !.storage = savedAll(restored(controls)),
                        !.last = Event("mount"),
                        !.was = controls.density]

Mounted == controls.phase = "mounted"

\* onChange of the search input (lines 378-381)
TypeSearch(text) ==
    /\ Mounted
    /\ Handled([controls EXCEPT !.q = text, !.page = 1], Event("search"))

\* onChange of the three selects (lines 391-394, 409-412, 421-424)
SelectSortBy(key) ==
    /\ Mounted
    /\ Handled([controls EXCEPT !.sortBy = key, !.page = 1], Event("sortBy"))

SelectSortOrder(order) ==
    /\ Mounted
    /\ Handled([controls EXCEPT !.sortOrder = order, !.page = 1], Event("sortOrder"))

SelectPageSize(size) ==
    /\ Mounted
    /\ Handled([controls EXCEPT !.pageSize = size, !.page = 1], Event("pageSize"))

\* handleHeaderSort (lines 343-351)
handleHeaderSort(key) ==
    /\ Mounted
    /\ Handled(IF controls.sortBy = key
               THEN [controls EXCEPT
                        !.page = 1,
                        !.sortOrder = IF @ = "asc" THEN "desc" ELSE "asc"]
               ELSE [controls EXCEPT !.page = 1, !.sortBy = key, !.sortOrder = "asc"],
               Event("header"))

\* the pagination buttons (lines 744, 751); totalPages comes from the total
\* of the last list
PreviousPage ==
    /\ Mounted
    /\ controls.page > 1
    /\ Handled([controls EXCEPT !.page = Max(1, @ - 1)], Event("previous"))

NextPage(totalPages) ==
    /\ Mounted
    /\ controls.page < totalPages
    /\ Handled([controls EXCEPT !.page = IF @ < totalPages THEN @ + 1 ELSE @],
               Event("next"))

\* onClick of a density button (lines 438, 459)
ClickDensity(density) ==
    /\ Mounted
    /\ Handled([controls EXCEPT !.density = density],
               [Event("density") EXCEPT !.key = density])

\* prev === 'comfortable' ? 'compact' : 'comfortable'
otherDensityStuck(prev) == "compact"

otherDensity(prev) == IF prev = "comfortable" THEN "compact" ELSE "comfortable"

\* resetControls (lines 256-262)
resetControlsKeepQuery(c) ==
    [c EXCEPT !.sortBy = "lastActivityAt", !.sortOrder = "desc",
              !.pageSize = 50, !.page = 1]

resetControls(c) ==
    [c EXCEPT !.q = <<>>, !.sortBy = "lastActivityAt", !.sortOrder = "desc",
              !.pageSize = 50, !.page = 1]

\* the global keydown handler (lines 313-340), for the keys that change the
\* controls; '/' moves the focus only
Keys == {"/", "r", "d", "D"}

KeyDown(key, modified, typing) ==
    LET event == [event |-> "keydown", key |-> key, typing |-> typing,
                  modified |-> modified]
    IN  /\ Mounted
        /\ Handled(IF modified THEN controls
                   ELSE IF key = "/" THEN controls
                   ELSE IF key = "r" /\ ~typing THEN resetControls(controls)
                   ELSE IF key \in {"d", "D"} /\ ~typing
                        THEN [controls EXCEPT !.density = otherDensity(@)]
                   ELSE controls,
                   event)

\* the Reset button (line 485)
ClickReset ==
    /\ Mounted
    /\ Handled(resetControls(controls), Event("reset"))

\* showToast (lines 103-109): the toast is appended and a timer is started;
\* the id is a fresh one
showToast(c, message, type) ==
    [c EXCEPT !.toasts = Append(@, [id |-> c.made + 1, message |-> message,
                                     type |-> type]),
              !.timers = @ \cup {c.made + 1},
              !.made = @ + 1]

\* resetAllControls (lines 265-276): the four keys are removed before the
\* controls are reset
resetAllControls ==
    /\ Mounted
    /\ controls.made < MaxToasts
    /\ controls' = rendered(showToast(resetControls(controls), sPreferencesCleared,
                                      "success"),
                            [controls.storage EXCEPT !.contactsSortBy = Null,
                                                     !.contactsSortOrder = Null,
                                                     !.contactsPageSize = Null,
                                                     !.contactsQuery = Null],
                            Event("resetAll"))

\* the callback of the timer of a toast
ToastTimeout(id) ==
    /\ id \in controls.timers
    /\ Handled([controls EXCEPT
                    !.toasts = SelectSeq(@, LAMBDA t : t.id # id),
                    !.timers = @ \ {id}],
               Event("timeout"))

\* the values the user gives the controls
SearchTexts == {<<>>, sA}
SortChoices == {"firstName", "lastActivityAt"}

Page(A) == A /\ UNCHANGED storeVars /\ UNCHANGED clientVars /\ UNCHANGED ops

(***************************************************************************)
(* The client (src/unnamed/part_001 is the contacts page,                  *)
(* src/src/app/contacts/[id]/page.tsx the tasks page of one contact).      *)
(* A page loads its list with fetchData / loadTasks, which retries a       *)
(* failed request and gives up when a newer call has aborted its           *)
(* controller; the tasks page changes tasks through handlers that update   *)
(* the local list first and send the request through withRetry.  What the  *)
(* server answers is drawn: a status, 0 standing for a fetch that rejects  *)
(* without an answer.                                                      *)
(***************************************************************************)
\* const attempts = 3 (loadTasks, fetchData), attempts = 3 (withRetry)
attempts == 3

Answers == {200, 400, 404, 503, 0}

\* Response.ok
ok(status) == status \in 200..299

sHTTP == <<"H", "T", "T", "P", " ">>
sFailedToFetch == <<"F", "a", "i", "l", "e", "d", " ", "t", "o", " ", "f", "e", "t", "c", "h">>

\* the message of what the request threw: `HTTP ${res.status}`, or the
\* TypeError of a fetch that rejected
httpError(status) ==
    IF status = 0 THEN sFailedToFetch ELSE sHTTP \o NatToString(status)

\* a record of the local task list
Entry(id, completed, optimistic, err) ==
    [id |-> id, completed |-> completed, _optimistic |-> optimistic, _error |-> err]

\* ids of the local list: a task the server holds, and the task the create
\* of the n-th mutation is answered with
ServerTaskId == <<"T", 1>>
CreatedTaskId(n) == <<"T", 1 + n>>

\* what a list request answered with 200 may carry: a body that does not
\* parse (res.json() rejects), or a list result
ListBodies(page) ==
    IF page = "ContactsPage"
    THEN {Null, Some([data |-> <<>>, total |-> 0]),
          Some([data |-> <<"C00001">>, total |-> 2])}
    ELSE {Null, Some([data |-> <<>>, total |-> 0]),
          Some([data |-> <<Entry(ServerTaskId, FALSE, FALSE, Null)>>, total |-> 1])}

NoMutation ==
    [kind |-> "none", pc |-> "idle", i |-> 0, sent |-> 0, n |-> 0,
     task |-> Null, next |-> Null, prev |-> <<>>, lastError |-> Null, lastStatus |-> 0,
     end |-> "none", replaced |-> FALSE]

NoUi(page) ==
    [data |-> <<>>, total |-> 0, tasks |-> <<>>, error |-> Null,
     loading |-> (page = "ContactTasksPage")]

NoClient ==
    /\ mounted = "none"
    /\ loads = <<>>
    /\ ui = NoUi("none")
    /\ shown = 0
    /\ mutation = NoMutation

\* abortRef.current?.abort()
abortCurrent(ls) ==
    IF ls = <<>> THEN ls ELSE [ls EXCEPT ![Len(ls)].aborted = TRUE]

\* the first lines of fetchData / loadTasks, up to the first await: the
\* controller in abortRef is aborted and replaced, loading and error are
\* reset and the first request is sent
beginLoad(ls) ==
    Append(abortCurrent(ls),
           [pc |-> "fetch", i |-> 0, sent |-> 1, aborted |-> FALSE, end |-> "none"])

\* the catch block of fetchData / loadTasks for an error that is not an
\* AbortError: the last attempt sets error and loading, the others wait
loadCaught(k, msg) ==
    IF loads[k].i = attempts - 1
    THEN /\ loads' = [loads EXCEPT ![k].pc = "returned", ![k].end = "error"]
         /\ ui' = [ui EXCEPT !.error = Some(msg), !.loading = FALSE]
    ELSE /\ loads' = [loads EXCEPT ![k].pc = "sleep"]
         /\ ui' = ui

\* the AbortError branch of the catch block: return, nothing set
loadAbortedSetsLoading(k) ==
    /\ loads' = [loads EXCEPT ![k].pc = "returned", ![k].end = "aborted"]
    /\ ui' = [ui EXCEPT !.loading = FALSE]

loadAborted(k) ==
    /\ loads' = [loads EXCEPT ![k].pc = "returned", ![k].end = "aborted"]
    /\ ui' = ui

\* the effect of a page on its query string: the page calls fetchData /
\* loadTasks when it mounts and again whenever the query changes
StartLoad ==
    /\ mounted \in {"ContactsPage", "ContactTasksPage"}
    /\ Len(loads) < MaxLoads
    /\ loads' = beginLoad(loads)
    /\ ui' = [ui EXCEPT !.loading = TRUE, !.error = Null]
    /\ UNCHANGED <<mounted, shown, mutation>>

\* the request of call k is settled: fetch rejects with an AbortError when
\* the controller was aborted, resolves with the answer otherwise
LoadAnswer(k, status) ==
    /\ loads[k].pc = "fetch"
    /\ IF loads[k].aborted THEN loadAborted(k)
       ELSE IF status # 0 /\ ok(status)
       THEN loads' = [loads EXCEPT ![k].pc = "json"] /\ ui' = ui
       ELSE loadCaught(k, httpError(status))
    /\ UNCHANGED <<mounted, shown, mutation>>

sBadJson == <<"S", "y", "n", "t", "a", "x", "E", "r", "r", "o", "r">>

\* res.json() of call k is settled: it rejects with an AbortError when the
\* controller was aborted while the body was read, with a SyntaxError for a
\* body that does not parse, and resolves with the list otherwise
LoadJson(k, body) ==
    /\ loads[k].pc = "json"
    /\ IF loads[k].aborted
       THEN loadAborted(k) /\ UNCHANGED <<shown, mutation>>
       ELSE IF IsNull(body)
       THEN loadCaught(k, sBadJson) /\ UNCHANGED <<shown, mutation>>
       ELSE /\ loads' = [loads EXCEPT ![k].pc = "returned", ![k].end = "data"]
            /\ ui' = IF mounted = "ContactsPage"
                     THEN [ui EXCEPT !.data = Val(body).data,
                                     !.total = Val(body).total,
                                     !.loading = FALSE]
                     ELSE [ui EXCEPT !.tasks = Val(body).data, !.loading = FALSE]
            /\ shown' = k
            /\ mutation' = IF mutation.pc \in {"fetch", "sleep"}
                           THEN [mutation EXCEPT !.replaced = TRUE]
                           ELSE mutation
    /\ UNCHANGED mounted

\* the timer of call k fires and the loop makes its next attempt: fetch with
\* an aborted signal rejects at once and sends nothing
LoadWake(k) ==
    /\ loads[k].pc = "sleep"
    /\ IF loads[k].aborted THEN loadAborted(k)
       ELSE /\ loads' = [loads EXCEPT ![k].pc = "fetch", ![k].i = @ + 1,
                                      ![k].sent = @ + 1]
            /\ ui' = ui
    /\ UNCHANGED <<mounted, shown, mutation>>

\* the cleanup of the effect when the page goes away
Unmount ==
    /\ mounted \in {"ContactsPage", "ContactTasksPage"}
    /\ loads # <<>>
    /\ mounted' = "gone"
    /\ loads' = abortCurrent(loads)
    /\ UNCHANGED <<ui, shown, mutation>>

\* prev.map((t) => (t.id === id ? next : t))
replaceEntry(list, id, next) ==
    [j \in 1..Len(list) |-> IF list[j].id = id THEN next ELSE list[j]]

\* prev.filter((t) => t.id !== id)
dropEntry(list, id) ==
    FilterSeq(list, {j \in 1..Len(list) : list[j].id # id}, 1)

\* { ...t, _optimistic: false, _error: msg }
failedEntry(t, msg) == [t EXCEPT !._optimistic = FALSE, !._error = Some(msg)]

\* the id of the optimistic record of the n-th mutation: 'TEMP-' and six
\* random characters
TempId(n) == <<"TEMP", n>>

MutationRunning == mutation.pc \in {"fetch", "sleep"}

\* the handlers run while the page is shown; the model starts one mutation
\* when the one before has ended
CanMutate == mounted = "ContactTasksPage" /\ ~MutationRunning

EntriesOf(list) == {list[j] : j \in 1..Len(list)}

\* withRetry up to its first await: fn is called, which sends the request
beginRetry(kind, task, next, prev) ==
    [kind |-> kind, pc |-> "fetch", i |-> 0, sent |-> 1,
     n |-> IF kind = "retryCreateOptimistic" THEN mutation.n ELSE mutation.n + 1,
     task |-> Some(task), next |-> Some(next), prev |-> prev,
     lastError |-> Null, lastStatus |-> 0,
     end |-> "none", replaced |-> FALSE]

\* createTask of the tasks page: nothing happens for an empty title; the
\* optimistic record is put first and the POST is sent
ClientCreateTask(title) ==
    /\ CanMutate
    /\ mutation.n < MaxMutations
    /\ trim(title) # <<>>
    /\ LET optimistic == Entry(TempId(mutation.n + 1), FALSE, TRUE, Null)
       IN  /\ ui' = [ui EXCEPT !.tasks = <<optimistic>> \o @]
           /\ mutation' = beginRetry("createTask", optimistic, optimistic, <<>>)
    /\ UNCHANGED <<mounted, loads, shown>>

\* setCompleted(task, completed)
ClientSetCompleted(task, completed) ==
    /\ CanMutate
    /\ mutation.n < MaxMutations
    /\ task \in EntriesOf(ui.tasks)
    /\ LET next == [task EXCEPT !.completed = completed]
       IN  /\ ui' = [ui EXCEPT !.tasks =
                         replaceEntry(@, task.id, [next EXCEPT !._optimistic = TRUE])]
           /\ mutation' = beginRetry("setCompleted", task, next, <<>>)
    /\ UNCHANGED <<mounted, loads, shown>>

\* deleteTask(task): prev is the list the page was rendered with
ClientDeleteTask(task) ==
    /\ CanMutate
    /\ mutation.n < MaxMutations
    /\ task \in EntriesOf(ui.tasks)
    /\ ui' = [ui EXCEPT !.tasks = dropEntry(@, task.id)]
    /\ mutation' = beginRetry("deleteTask", task, task, ui.tasks)
    /\ UNCHANGED <<mounted, loads, shown>>

\* retryCreateOptimistic(task), offered for a record that has an _error and
\* a TEMP id; the model retries a failed creation once
ClientRetryCreate(task) ==
    /\ CanMutate
    /\ mutation.kind = "createTask"
    /\ task \in EntriesOf(ui.tasks)
    /\ ~IsNull(task._error)
    /\ task.id[1] = "TEMP"
    /\ ui' = [ui EXCEPT !.tasks =
                  replaceEntry(@, task.id,
                               [task EXCEPT !._optimistic = TRUE, !._error = Null])]
    /\ mutation' = beginRetry("retryCreateOptimistic", task, task, <<>>)
    /\ UNCHANGED <<mounted, loads, shown>>

\* saveEdit(task): nothing happens for an empty title
ClientSaveEdit(task, title) ==
    /\ CanMutate
    /\ mutation.n < MaxMutations
    /\ task \in EntriesOf(ui.tasks)
    /\ trim(title) # <<>>
    /\ ui' = [ui EXCEPT !.tasks =
                  replaceEntry(@, task.id,
                               [task EXCEPT !._optimistic = TRUE, !._error = Null])]
    /\ mutation' = beginRetry("saveEdit", task, task, <<>>)
    /\ UNCHANGED <<mounted, loads, shown>>

\* what fn throws for an answer that is not ok: saveEdit keeps the message of
\* a 404, the others throw `HTTP ${res.status}`
thrown(kind, status) ==
    IF kind = "saveEdit" /\ status = 404
    THEN errorMessage("updateTask", "NotFoundError")
    ELSE httpError(status)

\* withRetry, for what fn threw: the last attempt rethrows, the others wait,
\* whatever was thrown
retries(i, status) == i # attempts - 1

\* the record the server answers a create or an update with: what was asked
\* for, under the id of the task
confirmedEntry(kind, next, n) ==
    Entry(IF kind \in {"createTask", "retryCreateOptimistic"}
          THEN CreatedTaskId(n) ELSE next.id,
          next.completed, FALSE, Null)

\* the lines after withRetry has returned
succeeded(kind, task, next, n, list) ==
    IF kind = "deleteTask" THEN list
    ELSE replaceEntry(list, task.id, confirmedEntry(kind, next, n))

\* the catch block of the handler, for what withRetry threw
failed(kind, task, prev, list, msg) ==
    CASE kind = "createTask" ->
            [j \in 1..Len(list) |->
                IF list[j].id = task.id THEN failedEntry(list[j], msg) ELSE list[j]]
      [] kind = "deleteTask" -> replaceEntry(prev, task.id, failedEntry(task, msg))
      [] kind = "saveEdit" /\ startsWith(msg, sNotFoundError) -> dropEntry(list, task.id)
      [] OTHER -> replaceEntry(list, task.id, failedEntry(task, msg))

\* the request of the running mutation is settled
MutationAnswer(status) ==
    /\ mutation.pc = "fetch"
    /\ LET kind == mutation.kind
           task == Val(mutation.task)
           msg == thrown(kind, status)
       IN  IF status # 0 /\ ok(status)
           THEN /\ mutation' = [mutation EXCEPT !.pc = "ended", !.end = "confirmed",
                                                !.lastStatus = status]
                /\ ui' = [ui EXCEPT !.tasks = succeeded(kind, task, Val(mutation.next),
                                                         mutation.n, @)]
                /\ loads' = loads
           ELSE IF retries(mutation.i, status)
           THEN /\ mutation' = [mutation EXCEPT !.pc = "sleep",
                                                !.lastError = Some(msg),
                                                !.lastStatus = status]
                /\ ui' = ui
                /\ loads' = loads
           ELSE /\ mutation' = [mutation EXCEPT !.pc = "ended", !.end = "failed",
                                                !.lastError = Some(msg),
                                                !.lastStatus = status]
                /\ IF kind = "saveEdit" /\ startsWith(msg, sNotFoundError)
                   THEN \* loadTasks() is called to refresh the list
                        /\ loads' = beginLoad(loads)
                        /\ ui' = [ui EXCEPT
                                    !.tasks = failed(kind, task, mutation.prev, @, msg),
                                    !.loading = TRUE, !.error = Null]
                   ELSE /\ loads' = loads
                        /\ ui' = [ui EXCEPT
                                    !.tasks = failed(kind, task, mutation.prev, @, msg)]
    /\ UNCHANGED <<mounted, shown>>

\* the sleep of withRetry is over: fn is called again
MutationWake ==
    /\ mutation.pc = "sleep"
    /\ mutation' = [mutation EXCEPT !.pc = "fetch", !.i = @ + 1, !.sent = @ + 1]
    /\ UNCHANGED <<mounted, loads, ui, shown>>

(***************************************************************************)
(* Queries the model tries.                                                *)
(***************************************************************************)
sQueryLi == <<"L", "I">>
sQueryJoined == <<"a", " ", "k">>
sQueryVi == <<"V", "I">>

\* page and pageSize: defaults, whole pages, a partial page, pages past the
\* end, and page sizes of zero and below
PageParams ==
    {[page |-> Null, pageSize |-> Null],
     [page |-> Some(1), pageSize |-> Some(1)],
     [page |-> Some(2), pageSize |-> Some(2)],
     [page |-> Some(3), pageSize |-> Some(2)],
     [page |-> Some(1), pageSize |-> Some(0)],
     [page |-> Some(1), pageSize |-> Some(-1)],
     [page |-> Some(2), pageSize |-> Some(-1)]}

ContactSortParams ==
    {[sortBy |-> Null, sortOrder |-> Null],
     [sortBy |-> Some("firstName"), sortOrder |-> Some("asc")],
     [sortBy |-> Some("firstName"), sortOrder |-> Some("desc")],
     [sortBy |-> Some("id"), sortOrder |-> Null]}

ContactQueries ==
    {[q |-> q, sortBy |-> s.sortBy, sortOrder |-> s.sortOrder, page |-> p.page,
      pageSize |-> p.pageSize] :
        q \in {Null, Some(sQueryLi), Some(sQueryJoined)},
        s \in ContactSortParams, p \in PageParams}

DefaultContactQuery ==
    [q |-> Null, sortBy |-> Null, sortOrder |-> Null, page |-> Null,
     pageSize |-> Null]

TaskFilterParams ==
    {[contactId |-> Null, completed |-> Null, q |-> Null],
     [contactId |-> Some(<<>>), completed |-> Null, q |-> Null],
     [contactId |-> Some(ContactId(1)), completed |-> Null, q |-> Null],
     [contactId |-> Null, completed |-> Some(TRUE), q |-> Null],
     [contactId |-> Null, completed |-> Some(FALSE), q |-> Some(sQueryVi)],
     [contactId |-> Some(ContactId(1)), completed |-> Some(TRUE), q |-> Some(<<>>)]}

TaskSortParams ==
    {[sortBy |-> Null, sortOrder |-> Null],
     [sortBy |-> Some("dueDate"), sortOrder |-> Some("asc")],
     [sortBy |-> Some("title"), sortOrder |-> Some("desc")]}

TaskQueries ==
    {[contactId |-> f.contactId, completed |-> f.completed, q |-> f.q,
      sortBy |-> s.sortBy, sortOrder |-> s.sortOrder, page |-> p.page,
      pageSize |-> p.pageSize] :
        f \in TaskFilterParams, s \in TaskSortParams, p \in PageParams}

\* listTasks({contactId})
TaskQueryFor(contactId) ==
    [contactId |-> Some(contactId), completed |-> Null, q |-> Null,
     sortBy |-> Null, sortOrder |-> Null, page |-> Null, pageSize |-> Null]

(***************************************************************************)
(* Initial states: a process that has just started (both caches null) over *)
(* a data directory an earlier run of the program may have left: none, or  *)
(* one in which Ada (C00001) was created and deleted again, Bo (C00002) is *)
(* left, and the last of many tasks (T99999) is Bo's.                      *)
(***************************************************************************)
FileAda == newContact(<<>>, CHOOSE i \in ContactInputs : i.firstName = sAda,
                      StartTime - 1)
FileBo == newContact(<<FileAda>>,
                     [firstName |-> sBo, lastName |-> sKim, email |-> sMailB,
                      phone |-> Null, company |-> Some(sOrchid),
                      city |-> Some(sAustin), state |-> Some(sTX),
                      tags |-> Some(<<sVip>>)],
                     StartTime)
FileTask == newTask(<<[id |-> TaskId(99998)]>>,
                    CHOOSE i \in TaskInputsFor(FileBo.id) : i.title = Some(sHiSpaced),
                    sHi, StartTime)

InitFiles ==
    {[contacts |-> Null, tasks |-> Null],
     [contacts |-> Some(<<FileBo>>), tasks |-> Some(<<FileTask>>)]}

InitStore(files, end) ==
    /\ CONTACTS_CACHE = Null
    /\ TASKS_CACHE = Null
    /\ \E f \in files : contactsFile = f.contacts /\ tasksFile = f.tasks
    /\ now = StartTime
    /\ horizon = end
    /\ res = Result("none", "none", Null, Null, Null)
    /\ repeated = FALSE
    /\ roulette = FALSE
    /\ known = [contacts |-> {}, tasks |-> {}, goneContacts |-> {}, goneTasks |-> {}]
    /\ hist = [created |-> {}, tasked |-> {}, cascaded |-> {}, removed |-> {}]
    /\ fault = "none"

InitWith(files, end) ==
    InitStore(files, end) /\ NoClient /\ controls = NoControls(NoStorage)
                          /\ ops = NoOps

Init == InitWith(InitFiles, MaxTime)

(***************************************************************************)
(* The store used one call at a time.                                      *)
(***************************************************************************)
\* a step that repeats a successful list call: same function, same parameters,
\* successful again, the call right after it
RepeatsList ==
    /\ res.op \in {"listContacts", "listTasks"}
    /\ res.status = "ok"
    /\ res'.op = res.op
    /\ res'.status = "ok"
    /\ res'.arg = res.arg

\* what the caller holds after a call, from what its successful writes
\* returned: the records created or updated and not deleted since, and the ids
\* deleted and not given out again since
Observed ==
    IF res'.status # "ok" THEN known
    ELSE CASE res'.op = "createContact" ->
                [known EXCEPT !.contacts = @ \cup {Val(res'.out)},
                              !.goneContacts = @ \ {Val(res'.out).id}]
           [] res'.op = "deleteContact" ->
                [known EXCEPT !.contacts = {c \in @ : c.id # Val(res'.arg)},
                              !.goneContacts = @ \cup {Val(res'.arg)}]
           [] res'.op = "createTask" ->
                [known EXCEPT !.tasks = @ \cup {Val(res'.out)},
                              !.goneTasks = @ \ {Val(res'.out).id}]
           [] res'.op = "updateTask" ->
                [known EXCEPT !.tasks = {t \in @ : t.id # Val(res'.out).id}
                                            \cup {Val(res'.out)}]
           [] res'.op = "deleteTask" ->
                [known EXCEPT !.tasks = {t \in @ : t.id # Val(res'.arg)},
                              !.goneTasks = @ \cup {Val(res'.arg)}]
           [] OTHER -> known

\* one call, observed
Call(A) ==
    A /\ repeated' = RepeatsList /\ known' = Observed /\ fault' = "none"
      /\ UNCHANGED clientVars /\ UNCHANGED <<controls, ops>>

Next ==
    \/ Call(ListContacts(DefaultContactQuery))
    \/ \E id \in ContactIdInputs : Call(GetContact(id))
    \/ \E input \in ContactInputs : Call(CreateContact(input))
    \/ \E id \in KnownContactIds : Call(DeleteContact(id))
    \/ \E id \in ContactIdInputs : Call(ListTasks(TaskQueryFor(id)))
    \/ \E id \in KnownContactIds : \E input \in TaskInputsFor(id) :
            Call(CreateTask(input))
    \/ \E id \in TaskIdInputs : \E updates \in TaskUpdates :
            Call(UpdateTask(id, updates))
    \/ \E id \in TaskIdInputs : Call(DeleteTask(id))

Spec == Init /\ [][Next]_vars

(***************************************************************************)
(* The same calls over a run that is one changing call longer.             *)
(***************************************************************************)
InitLong == InitWith(InitFiles, MaxTime + 1)

SpecLong == InitLong /\ [][Next]_vars

(***************************************************************************)
(* Contacts deleted while file operations fail: creates as in Next, and    *)
(* deleteContact with each of its file operations failing.                 *)
(***************************************************************************)
CallIo(A, io) ==
    A /\ repeated' = RepeatsList /\ known' = Observed /\ fault' = io
      /\ UNCHANGED clientVars /\ UNCHANGED <<controls, ops>>

NextIo ==
    \/ \E input \in ContactInputs : Call(CreateContact(input))
    \/ \E id \in KnownContactIds : \E input \in TaskInputsFor(id) :
            Call(CreateTask(input))
    \/ \E id \in ContactIdInputs : Call(GetContact(id))
    \/ \E id \in KnownContactIds : \E io \in DeleteFaults :
            CallIo(DeleteContactIo(id, io), io)

SpecIo == Init /\ [][NextIo]_vars

(***************************************************************************)
(* Writes and the reads that follow them: the calls of Next, with task     *)
(* lists filtered by completed as well and a task update whose title is    *)
(* longer than createTask allows.                                          *)
(***************************************************************************)
TaskQueryCompleted(completed) ==
    [contactId |-> Null, completed |-> Some(completed), q |-> Null,
     sortBy |-> Null, sortOrder |-> Null, page |-> Null, pageSize |-> Null]

WriteTaskQueries ==
    {TaskQueryFor(id) : id \in ContactIdsOf(CONTACTS_CACHE)}
        \cup {TaskQueryCompleted(c) : c \in {TRUE, FALSE}}

TitleTooLong == [title |-> Some(sTooLong), notes |-> Null, dueDate |-> Null,
                 completed |-> Null, priority |-> Null]

WriteTaskUpdates == {OnlyCompleted, TitleTooLong}

NextWrites ==
    \/ Call(ListContacts(DefaultContactQuery))
    \/ \E id \in ContactIdInputs : Call(GetContact(id))
    \/ \E input \in ContactInputs : Call(CreateContact(input))
    \/ \E id \in KnownContactIds : Call(DeleteContact(id))
    \/ \E params \in WriteTaskQueries : Call(ListTasks(params))
    \/ \E id \in ContactIdsOf(CONTACTS_CACHE) : \E input \in TaskInputsFor(id) :
            Call(CreateTask(input))
    \/ \E id \in TaskIdInputs : \E updates \in WriteTaskUpdates :
            Call(UpdateTask(id, updates))
    \/ \E id \in TaskIdInputs : Call(DeleteTask(id))

SpecWrites == Init /\ [][NextWrites]_vars

(***************************************************************************)
(* The list pipeline: list calls with every query of ContactQueries and    *)
(* TaskQueries, over the data directories of Init and one that holds three *)
(* contacts and three tasks.  The larger directory is what these calls     *)
(* leave: Ada, Bo and a second "ada" created in turn (the last two within  *)
(* one millisecond), a task for Ada, one for Bo with notes and a due date, *)
(* and a second one for Ada that was then completed.                       *)
(***************************************************************************)
QueryAda == newContact(<<>>, CHOOSE i \in ContactInputs : i.firstName = sAda,
                       StartTime - 2)
QueryBo == newContact(<<QueryAda>>,
                      [firstName |-> sBo, lastName |-> sKim, email |-> sMailB,
                       phone |-> Null, company |-> Some(sOrchid),
                       city |-> Some(sAustin), state |-> Some(sTX),
                       tags |-> Some(<<sVip>>)],
                      StartTime - 1)
QueryAdaLower == newContact(<<QueryBo, QueryAda>>,
                            [firstName |-> normalize(sAda), lastName |-> sKim,
                             email |-> <<"c", "@", "x">>, phone |-> Null,
                             company |-> Null, city |-> Null, state |-> Null,
                             tags |-> Null],
                            StartTime - 1)
QueryContacts == <<QueryAdaLower, QueryBo, QueryAda>>

QueryTaskCall ==
    newTask(<<>>,
            CHOOSE i \in TaskInputsFor(QueryAda.id) : i.title = Some(sCall),
            sCall, StartTime - 2)
QueryTaskHi ==
    newTask(<<QueryTaskCall>>,
            [contactId |-> QueryBo.id, title |-> Some(sHiSpaced),
             notes |-> Some(sNoteVip), dueDate |-> Some(10), priority |-> Some("high")],
            sHi, StartTime - 1)
QueryTaskDone ==
    updatedTask(newTask(<<QueryTaskCall, QueryTaskHi>>,
                        [contactId |-> QueryAda.id, title |-> Some(normalize(sCall)),
                         notes |-> Null, dueDate |-> Some(9), priority |-> Null],
                        normalize(sCall), StartTime - 1),
                OnlyCompleted, StartTime)
QueryTasks == <<QueryTaskCall, QueryTaskHi, QueryTaskDone>>

QueryFiles ==
    InitFiles \cup {[contacts |-> Some(QueryContacts), tasks |-> Some(QueryTasks)]}

InitQuery == InitWith(QueryFiles, StartTime)

NextQuery ==
    \/ \E params \in ContactQueries : Call(ListContacts(params))
    \/ \E params \in TaskQueries : Call(ListTasks(params))

SpecQuery == InitQuery /\ [][NextQuery]_vars

(***************************************************************************)
(* The client alone: a page is mounted, the user changes the query and     *)
(* starts mutations, and each request is answered with any status.  The    *)
(* store takes no step here: what the server answers is drawn.             *)
(***************************************************************************)
InitClient ==
    /\ InitStore({[contacts |-> Null, tasks |-> Null]}, StartTime)
    /\ mounted \in {"ContactsPage", "ContactTasksPage"}
    /\ loads = <<>>
    /\ ui = NoUi(mounted)
    /\ shown = 0
    /\ mutation = NoMutation
    /\ controls = NoControls(NoStorage)
    /\ ops = NoOps

EditTitles == {sBlank, sHi}

\* the most calls of fetchData / loadTasks a run makes: those of the user and
\* the refresh of each saveEdit
MaxCalls == MaxLoads + MaxMutations

Client(A) == A /\ UNCHANGED storeVars /\ UNCHANGED <<controls, ops>>

\* the step call k of fetchData / loadTasks can take
LoadStep(k) ==
    /\ k \in 1..Len(loads)
    /\ \/ \E status \in Answers : LoadAnswer(k, status)
       \/ \E body \in ListBodies(mounted) : LoadJson(k, body)
       \/ LoadWake(k)

\* the step the running mutation can take
MutationStep == (\E status \in Answers : MutationAnswer(status)) \/ MutationWake

NextClient ==
    \/ Client(StartLoad)
    \/ \E k \in 1..Len(loads) : \E status \in Answers : Client(LoadAnswer(k, status))
    \/ \E k \in 1..Len(loads) : \E body \in ListBodies(mounted) :
            Client(LoadJson(k, body))
    \/ \E k \in 1..Len(loads) : Client(LoadWake(k))
    \/ Client(Unmount)
    \/ \E title \in EditTitles : Client(ClientCreateTask(title))
    \/ \E task \in EntriesOf(ui.tasks) : \E completed \in BOOLEAN :
            Client(ClientSetCompleted(task, completed))
    \/ \E task \in EntriesOf(ui.tasks) : Client(ClientDeleteTask(task))
    \/ \E task \in EntriesOf(ui.tasks) : Client(ClientRetryCreate(task))
    \/ \E task \in EntriesOf(ui.tasks) : \E title \in EditTitles :
            Client(ClientSaveEdit(task, title))
    \/ \E status \in Answers : Client(MutationAnswer(status))
    \/ Client(MutationWake)

SpecClient == InitClient /\ [][NextClient]_vars

\* every request is settled and every timer fires
ClientFairness ==
    /\ \A k \in 1..MaxCalls : WF_vars(Client(LoadStep(k)))
    /\ WF_vars(Client(MutationStep))

SpecClientLive == SpecClient /\ ClientFairness

(***************************************************************************)
(* What the last call was, for the properties below.                       *)
(***************************************************************************)
IsList == res.op \in {"listContacts", "listTasks"}
ListOk == IsList /\ res.status = "ok"
ListArg == Val(res.arg)
ListOut == Val(res.out)
\* the collection the list call read
ListSnapshot == IF res.op = "listContacts" THEN Val(CONTACTS_CACHE)
                ELSE Val(TASKS_CACHE)
PageOf == OrElse(ListArg.page, 1)
PageSizeOf == OrElse(ListArg.pageSize, 50)
SortByOf == OrElse(ListArg.sortBy,
                   IF res.op = "listContacts" THEN "lastActivityAt" ELSE "updatedAt")
SortOrderOf == OrElse(ListArg.sortOrder, "desc")
SearchText == OrElse(ListArg.q, <<>>)

ContainsText(hay, needle) ==
    \E i \in 0..(Len(hay) - Len(needle)) : SubSeq(hay, i + 1, i + Len(needle)) = needle

ContactTextFields(c) ==
    {c.firstName \o <<" ">> \o c.lastName, c.email, c.company, c.city, c.state}
        \cup {c.tags[i] : i \in 1..Len(c.tags)}

TaskTextFields(t) == {t.title} \cup (IF IsNull(t.notes) THEN {} ELSE {Val(t.notes)})

SearchMatches(fields) ==
    \/ SearchText = <<>>
    \/ \E f \in fields : ContainsText(normalize(f), normalize(SearchText))

\* the filter predicate of the query of the last call; emptyIsAbsent says
\* whether a contactId of '' counts as not given
RecordMatches(r, emptyIsAbsent) ==
    IF res.op = "listContacts" THEN SearchMatches(ContactTextFields(r))
    ELSE /\ \/ IsNull(ListArg.contactId)
            \/ (emptyIsAbsent /\ Val(ListArg.contactId) = <<>>)
            \/ r.contactId = Val(ListArg.contactId)
         /\ (IsNull(ListArg.completed) \/ r.completed = Val(ListArg.completed))
         /\ SearchMatches(TaskTextFields(r))

MatchCount(emptyIsAbsent) ==
    Cardinality({i \in 1..Len(ListSnapshot) : RecordMatches(ListSnapshot[i], emptyIsAbsent)})

FilterHolds(emptyIsAbsent) ==
    ListOk =>
        /\ \A i \in 1..Len(ListOut.data) : RecordMatches(ListOut.data[i], emptyIsAbsent)
        /\ ListOut.total = MatchCount(emptyIsAbsent)

PageLength(total, page, pageSize) ==
    Min(pageSize, Max(0, total - (page - 1) * pageSize))

Order(a, b) == CompareValues(FieldValue(a, SortByOf), FieldValue(b, SortByOf))

IsCreate == res.op \in {"createContact", "createTask"}
CreateOk == IsCreate /\ res.status = "ok"
CreatedInto == IF res.op = "createContact" THEN Val(CONTACTS_CACHE) ELSE Val(TASKS_CACHE)

\* a prefix, then a decimal number of five digits or more, with leading zeros
\* only up to five digits
IdFormat(id, prefix) ==
    /\ Len(id) >= 6
    /\ id[1] = prefix
    /\ \A i \in 2..Len(id) : IsDigit(id[i])
    /\ (Len(id) > 6 => id[2] # "0")

TasksOnFile == OrElse(tasksFile, <<>>)

(***************************************************************************)
(* C1.  In one process, after createContact, createTask for that contact   *)
(* and deleteContact of that contact have succeeded, every later           *)
(* successful listTasks({contactId}) for the contact returns data = [] and *)
(* total = 0.  hist.cascaded holds the ids that went through the three     *)
(* calls and were not given out again since.                               *)
(***************************************************************************)
C1_ListAfterCascadeIsEmpty ==
    \A id \in hist.cascaded :
        (res.op = "listTasks" /\ res.status = "ok" /\ ListArg = TaskQueryFor(id))
            => (ListOut.data = <<>> /\ ListOut.total = 0)

(***************************************************************************)
(* C2.  After deleteContact(id) has succeeded, every later getContact(id)  *)
(* that does not fail transiently fails with NotFoundError, and the task   *)
(* file holds no task whose contactId is id.  hist.removed holds the ids   *)
(* deleted and not given out again since.                                  *)
(***************************************************************************)
C2_DeletedContactIsGone ==
    \A id \in hist.removed :
        /\ \A i \in 1..Len(TasksOnFile) : TasksOnFile[i].contactId # id
        /\ (res.op = "getContact" /\ Val(res.arg) = id
                /\ res.status # "TransientError")
            => res.status = "NotFoundError"

(***************************************************************************)
(* C3.  The id a successful createContact (createTask) returns is the id   *)
(* of exactly one record of the contact (task) collection, and is 'C'      *)
(* ('T') followed by a decimal number zero-padded to 5 digits.             *)
(***************************************************************************)
C3_CreatedIdIsFresh ==
    CreateOk =>
        /\ Cardinality({i \in 1..Len(CreatedInto) :
                            CreatedInto[i].id = Val(res.out).id}) = 1
        /\ \A i \in 1..Len(Val(res.prev)) : Val(res.prev)[i].id # Val(res.out).id
        /\ IdFormat(Val(res.out).id,
                    IF res.op = "createContact" THEN "C" ELSE "T")

\* a third id given out while the collection holds one record
C3_Witness ==
    /\ CreateOk
    /\ res.op = "createContact"
    /\ Len(Val(res.prev)) = 1
    /\ Val(res.out).id = ContactId(3)

(***************************************************************************)
(* C4.  For every successful list call with page >= 1 and pageSize >= 0,   *)
(* the length of data is min(pageSize, max(0, total - (page-1)*pageSize)). *)
(***************************************************************************)
C4_PageLength ==
    (ListOk /\ PageOf >= 1 /\ PageSizeOf >= 0)
        => Len(ListOut.data) = PageLength(ListOut.total, PageOf, PageSizeOf)

\* a last page that is not full
C4_Witness ==
    /\ ListOk
    /\ PageOf = 2
    /\ PageSizeOf = 2
    /\ ListOut.total = 3
    /\ Len(ListOut.data) = 1

\* C4 as stated: the same for any integer pageSize
C4_PageLengthAnyPageSize ==
    (ListOk /\ PageOf >= 1)
        => Len(ListOut.data) = PageLength(ListOut.total, PageOf, PageSizeOf)

(***************************************************************************)
(* C5.  For every successful list call, every record in data satisfies the *)
(* filter predicate (a given, non-empty contactId and a given completed    *)
(* match exactly and, when the search text is non-empty, a searchable text *)
(* field contains the lowercased text), and total is the number of records *)
(* of the collection that satisfy it.                                      *)
(***************************************************************************)
C5_FilterPredicate == FilterHolds(TRUE)

\* two structured filters that keep one task of three
C5_Witness ==
    /\ ListOk
    /\ res.op = "listTasks"
    /\ ListArg.contactId = Some(ContactId(1))
    /\ ListArg.completed = Some(TRUE)
    /\ ListOut.total = 1
    /\ Len(ListOut.data) = 1
    /\ Len(ListSnapshot) = 3

\* C5 as stated: every given contactId matches exactly, the empty one too
C5_FilterPredicateAnyContactId == FilterHolds(FALSE)

(***************************************************************************)
(* C6.  For every successful list call, every adjacent pair a, b of data   *)
(* is ordered by the comparator on sortBy (numeric difference when both    *)
(* values are numbers, string comparison otherwise): non-decreasing for    *)
(* 'asc', non-increasing for 'desc'; with no sort parameters contacts are  *)
(* ordered by lastActivityAt descending and tasks by updatedAt descending. *)
(***************************************************************************)
C6_AdjacentPairsOrdered ==
    ListOk =>
        \A i \in 1..(Len(ListOut.data) - 1) :
            IF SortOrderOf = "asc"
            THEN Order(ListOut.data[i], ListOut.data[i + 1]) <= 0
            ELSE Order(ListOut.data[i], ListOut.data[i + 1]) >= 0

\* the default order over records whose sort values differ
C6_Witness ==
    /\ ListOk
    /\ IsNull(ListArg.sortBy)
    /\ IsNull(ListArg.sortOrder)
    /\ Len(ListOut.data) = 3
    /\ Order(ListOut.data[1], ListOut.data[3]) > 0

(***************************************************************************)
(* C7.  A list call with page >= 1, pageSize >= 1 and                      *)
(* (page-1)*pageSize >= the number of matching records does not fail       *)
(* because of the page (its only failure is the simulated one), and when   *)
(* it succeeds it returns data = [], hasNext = false and total = the       *)
(* number of matching records.                                             *)
(***************************************************************************)
C7_PagePastTheEnd ==
    (IsList /\ PageOf >= 1 /\ PageSizeOf >= 1
            /\ (PageOf - 1) * PageSizeOf >= MatchCount(TRUE))
        => /\ res.status \in {"ok", "TransientError"}
           /\ res.status = "ok" =>
                /\ ListOut.data = <<>>
                /\ ListOut.hasNext = FALSE
                /\ ListOut.total = MatchCount(TRUE)

C7_Witness ==
    /\ ListOk
    /\ PageOf = 3
    /\ PageSizeOf = 2
    /\ MatchCount(TRUE) = 3
    /\ ListOut.data = <<>>

(***************************************************************************)
(* C8.  A successful updateTask(id, {completed: true}) returns and stores  *)
(* a task whose completed is true and whose updatedAt is the time of the   *)
(* call, and whose id, contactId, title, notes, dueDate, priority and      *)
(* createdAt are what they were before the call.                           *)
(***************************************************************************)
C8_CompleteOnlyFrame ==
    (res.op = "updateTask" /\ res.status = "ok" /\ Val(res.arg)[2] = OnlyCompleted)
        => /\ Val(res.out).completed = TRUE
           /\ Val(res.out).updatedAt = now
           /\ Val(res.out).updatedAt >= Val(res.prev).updatedAt
           /\ \A f \in {"id", "contactId", "title", "notes", "dueDate", "priority",
                        "createdAt"} : Val(res.out)[f] = Val(res.prev)[f]
           /\ \E i \in 1..Len(Val(TASKS_CACHE)) :
                /\ Val(TASKS_CACHE)[i] = Val(res.out)
                /\ TasksOnFile[i] = Val(res.out)
                /\ \A j \in 1..Len(Val(TASKS_CACHE)) :
                       Val(TASKS_CACHE)[j].id = Val(res.out).id => j = i

\* an open task with notes and a due date, completed
C8_Witness ==
    /\ res.op = "updateTask"
    /\ res.status = "ok"
    /\ Val(res.arg)[2] = OnlyCompleted
    /\ Val(res.prev).completed = FALSE
    /\ ~IsNull(Val(res.prev).notes)
    /\ ~IsNull(Val(res.prev).dueDate)
    /\ Val(res.prev).priority = "high"

(***************************************************************************)
(* C9.  A successful createContact returns a record with createdAt equal   *)
(* to lastActivityAt; a successful createTask whose input gives only       *)
(* contactId and title returns a record with priority 'medium', completed  *)
(* false and createdAt equal to updatedAt.                                 *)
(***************************************************************************)
C9_CreationDefaults ==
    /\ (res.op = "createContact" /\ res.status = "ok")
        => Val(res.out).createdAt = Val(res.out).lastActivityAt
    /\ (res.op = "createTask" /\ res.status = "ok" /\ IsNull(Val(res.arg).notes)
            /\ IsNull(Val(res.arg).dueDate) /\ IsNull(Val(res.arg).priority))
        => /\ Val(res.out).priority = "medium"
           /\ Val(res.out).completed = FALSE
           /\ Val(res.out).createdAt = Val(res.out).updatedAt

\* a task with only a title, for a contact created in this process
C9_Witness ==
    /\ res.op = "createTask"
    /\ res.status = "ok"
    /\ IsNull(Val(res.arg).notes)
    /\ IsNull(Val(res.arg).dueDate)
    /\ IsNull(Val(res.arg).priority)
    /\ Val(res.arg).contactId \in hist.created

(***************************************************************************)
(* C10.  Two successful list calls with the same query and no call between *)
(* them return the same result: the same total, the same data in the same  *)
(* order.                                                                  *)
(***************************************************************************)
C10_RepeatedListAgrees == [][RepeatsList => res'.out = res.out]_vars

\* a list call that repeated the one before it and returned records
C10_Witness ==
    /\ repeated
    /\ ListOk
    /\ Len(ListOut.data) > 0

(***************************************************************************)
(* C11.  Read-your-writes within one process: a get by the id a successful *)
(* createContact returned gives the created record, and a task list whose  *)
(* filter matches a created or updated task and whose page holds every     *)
(* match contains it; a list filtered by completed contains an updated     *)
(* task only when the filter equals its completed value; after a           *)
(* successful delete no get finds and no list contains a record with the   *)
(* deleted id, until the id is given out again.  The delete meant is the   *)
(* one that names the record, not the cascade of a contact's deletion.     *)
(***************************************************************************)
C11_ReadYourWrites ==
    /\ (res.op = "getContact" /\ res.status # "TransientError")
        => /\ \A c \in known.contacts :
                c.id = Val(res.arg) => (res.status = "ok" /\ Val(res.out) = c)
           /\ Val(res.arg) \in known.goneContacts => res.status = "NotFoundError"
    /\ (res.op = "listContacts" /\ res.status = "ok")
        => /\ \A i \in 1..Len(ListOut.data) :
                ListOut.data[i].id \notin known.goneContacts
           /\ \A c \in known.contacts :
                (RecordMatches(c, TRUE) /\ ListOut.total = Len(ListOut.data))
                    => \E i \in 1..Len(ListOut.data) : ListOut.data[i] = c
    /\ (res.op = "listTasks" /\ res.status = "ok")
        => /\ \A i \in 1..Len(ListOut.data) :
                ListOut.data[i].id \notin known.goneTasks
           /\ \A t \in known.tasks :
                /\ (RecordMatches(t, TRUE) /\ ListOut.total = Len(ListOut.data))
                        => \E i \in 1..Len(ListOut.data) : ListOut.data[i] = t
                /\ \A i \in 1..Len(ListOut.data) :
                        ListOut.data[i].id = t.id => RecordMatches(t, TRUE)

\* a list filtered by completed = true that returns a task this process
\* completed, after this process deleted a contact or a task
C11_Witness ==
    /\ res.op = "listTasks"
    /\ res.status = "ok"
    /\ ListArg = TaskQueryCompleted(TRUE)
    /\ \E t \in known.tasks : \E i \in 1..Len(ListOut.data) : ListOut.data[i] = t
    /\ known.goneContacts \cup known.goneTasks # {}

\* no two contacts of a list have the same lowercased email
DistinctEmails(contacts) ==
    \A i, j \in 1..Len(contacts) :
        normalize(contacts[i].email) = normalize(contacts[j].email) => i = j

\* the step is a createContact, on a loaded collection, of an email that a
\* contact of the collection has, compared case-insensitively
CreatesTakenEmail ==
    /\ res'.op = "createContact"
    /\ ~IsNull(CONTACTS_CACHE)
    /\ \E i \in 1..Len(Val(CONTACTS_CACHE)) :
            normalize(Val(CONTACTS_CACHE)[i].email)
                = normalize(trim(Val(res'.arg).email))

(***************************************************************************)
(* C12.  Whatever createContact and deleteContact calls are made on a      *)
(* loaded contact collection, no two contacts have the same lowercased     *)
(* email, in the cache and in the file; a createContact whose trimmed      *)
(* email equals an existing one case-insensitively fails with              *)
(* ValidationError and changes neither the cache nor the file.             *)
(***************************************************************************)
C12_EmailsStayDistinct ==
    [][/\ DistinctEmails(OrElse(CONTACTS_CACHE', <<>>))
       /\ DistinctEmails(OrElse(contactsFile', <<>>))
       /\ CreatesTakenEmail
            => /\ res'.status = "ValidationError"
               /\ CONTACTS_CACHE' = CONTACTS_CACHE
               /\ contactsFile' = contactsFile]_vars

\* a createContact refused for an email that differs from an existing one
\* only in case
C12_Witness ==
    /\ res.op = "createContact"
    /\ res.status = "ValidationError"
    /\ trim(Val(res.arg).firstName) # <<>>
    /\ \E i \in 1..Len(Val(CONTACTS_CACHE)) :
            /\ normalize(Val(CONTACTS_CACHE)[i].email)
                    = normalize(trim(Val(res.arg).email))
            /\ Val(CONTACTS_CACHE)[i].email # trim(Val(res.arg).email)

(***************************************************************************)
(* C13.  Every task of the task store, each of them created through        *)
(* createTask and changed since by updateTask calls only, has a title that *)
(* is trimmed and has between 1 and 120 characters.                        *)
(***************************************************************************)
C13_TitlesWithinLimits ==
    \A i \in 1..Len(OrElse(TASKS_CACHE, <<>>)) :
        LET title == Val(TASKS_CACHE)[i].title
        IN  /\ title = trim(title)
            /\ Len(title) >= 1
            /\ Len(title) <= 120

\* the step is a createTask whose contactId matches no contact of the contact
\* store
CreatesForMissingContact ==
    /\ res'.op = "createTask"
    /\ Val(res'.arg).contactId \notin ContactIdsOf(CONTACTS_CACHE')

\* the in-memory task list is the one the call found or loaded
NoTaskAdded ==
    Val(TASKS_CACHE') = IF IsNull(TASKS_CACHE) THEN OrElse(tasksFile, <<>>)
                        ELSE Val(TASKS_CACHE)

(***************************************************************************)
(* C14.  createTask with a contactId that matches no contact of the        *)
(* contact store at that time fails with ValidationError, adds no task to  *)
(* the in-memory task list and writes no task to the task file: the file   *)
(* is left as it was, or, when the call is the first of the process and    *)
(* there was no task file, is created with an empty list.                  *)
(***************************************************************************)
C14_MissingContactRejected ==
    [][CreatesForMissingContact
        => /\ res'.status = "ValidationError"
           /\ NoTaskAdded
           /\ \/ tasksFile' = tasksFile
              \/ (IsNull(TASKS_CACHE) /\ IsNull(tasksFile) /\ tasksFile' = Some(<<>>))]_vars

\* a task with a valid title refused for its contactId, in a store that
\* holds tasks
C14_Witness ==
    /\ res.op = "createTask"
    /\ res.status = "ValidationError"
    /\ Val(res.arg).contactId \notin ContactIdsOf(CONTACTS_CACHE)
    /\ Val(res.arg).title = Some(sCall)
    /\ Len(Val(TASKS_CACHE)) >= 1

\* C14 as stated: the call does not write the task file
C14_MissingContactWritesNothing ==
    [][CreatesForMissingContact
        => /\ res'.status = "ValidationError"
           /\ NoTaskAdded
           /\ tasksFile' = tasksFile]_vars

\* the step is a task write that ends with the simulated failure
TransientWrite ==
    /\ res'.op \in {"createTask", "updateTask", "deleteTask"}
    /\ res'.status = "TransientError"

\* the task collection, in memory and on file, is what it was
TaskCollectionKept ==
    /\ NoTaskAdded
    /\ OrElse(tasksFile', <<>>) = OrElse(tasksFile, <<>>)

(***************************************************************************)
(* C15.  For task writes the simulated transient failure is raised before  *)
(* the operation is attempted: a createTask, updateTask or deleteTask call *)
(* that ends with TransientError has changed neither the in-memory nor the *)
(* persisted task collection.                                              *)
(***************************************************************************)
C15_TransientWriteChangesNothing == [][TransientWrite => TaskCollectionKept]_vars

\* an update of an existing, open task to completed that ended with the
\* simulated failure
C15_Witness ==
    /\ res.op = "updateTask"
    /\ res.status = "TransientError"
    /\ Val(res.arg)[2] = OnlyCompleted
    /\ \E i \in 1..Len(Val(TASKS_CACHE)) :
            /\ Val(TASKS_CACHE)[i].id = Val(res.arg)[1]
            /\ Val(TASKS_CACHE)[i].completed = FALSE

\* C15 as stated: the failure is raised after the operation was attempted, so
\* that a task write that ends with TransientError has changed the collection
C15_TransientWriteHasChanged == [][TransientWrite => ~TaskCollectionKept]_vars

(***************************************************************************)
(* C16.  Whenever the failure draw of a list call is below its threshold,  *)
(* listContacts and listTasks end with a TransientError and return no      *)
(* result, for every query; the HTTP GET of the list then answers 503.     *)
(***************************************************************************)
C16_ListFailureSurfaces ==
    (IsList /\ roulette)
        => /\ res.status = "TransientError"
           /\ IsNull(res.out)
           /\ httpStatus = 503

\* a failed list of tasks with filters, a sort and a page, on a store that
\* holds matching tasks
C16_Witness ==
    /\ res.op = "listTasks"
    /\ roulette
    /\ ListArg.contactId = Some(ContactId(1))
    /\ ListArg.sortBy = Some("title")
    /\ ListArg.page = Some(1)
    /\ MatchCount(TRUE) >= 1

IsMutation ==
    res.op \in {"createContact", "deleteContact", "createTask", "updateTask",
                "deleteTask"}

\* the status of a POST, PATCH or DELETE answer by the outcome of the call
MutationStatus(op, status) ==
    CASE status = "ok" -> IF op \in {"createContact", "createTask"} THEN 201 ELSE 200
      [] status = "ValidationError" -> 400
      [] status = "NotFoundError" -> 404
      [] OTHER -> 503

\* the step is a delete of an id that no record has
DeletesUnknownId ==
    \/ /\ res'.op = "deleteContact"
       /\ Val(res'.arg) = UnknownContactId
       /\ UnknownContactId \notin ContactIdsOf(CONTACTS_CACHE')
    \/ /\ res'.op = "deleteTask"
       /\ Val(res'.arg) = UnknownTaskId
       /\ UnknownTaskId \notin TaskIdsOf(TASKS_CACHE')

\* the collection the delete was made on is what the call found or loaded
DeleteChangedNothing ==
    IF res'.op = "deleteTask" THEN TaskCollectionKept
    ELSE /\ tasksFile' = tasksFile
         /\ IF IsNull(CONTACTS_CACHE)
            THEN \E sd \in ensureSeededContacts(CONTACTS_CACHE, contactsFile, now) :
                    CONTACTS_CACHE' = sd.cache /\ contactsFile' = sd.file
            ELSE CONTACTS_CACHE' = CONTACTS_CACHE /\ contactsFile' = contactsFile

(***************************************************************************)
(* C17.  For POST, PATCH and DELETE routes the status is a function of the *)
(* store outcome: success gives 201 for a create and 200 otherwise, a      *)
(* ValidationError gives 400, a NotFoundError 404 and every other error    *)
(* 503; DELETE of an unknown id leaves the collection unchanged and        *)
(* answers 404, or, for a task, 503 when the simulated failure is drawn.   *)
(***************************************************************************)
C17_MutationStatus ==
    [][/\ IsMutation' => httpStatus' = MutationStatus(res'.op, res'.status)
       /\ DeletesUnknownId
            => /\ DeleteChangedNothing
               /\ \/ httpStatus' = 404
                  \/ (res'.op = "deleteTask" /\ roulette' /\ httpStatus' = 503)]_vars

\* a DELETE of an unknown task id answered with 404, on a store that holds
\* tasks
C17_Witness ==
    /\ res.op = "deleteTask"
    /\ Val(res.arg) = UnknownTaskId
    /\ res.status = "NotFoundError"
    /\ httpStatus = 404
    /\ Len(Val(TASKS_CACHE)) >= 1

\* C17 as stated: DELETE of an unknown id answers 404
C17_DeleteUnknownIs404 ==
    [][/\ IsMutation' => httpStatus' = MutationStatus(res'.op, res'.status)
       /\ DeletesUnknownId => (DeleteChangedNothing /\ httpStatus' = 404)]_vars

(***************************************************************************)
(* What a step of the client was, for the properties below.                *)
(***************************************************************************)
\* the step is the running mutation sending its request again
Resends == mutation.pc = "sleep" /\ mutation'.sent > mutation.sent

\* the step is the answer to the request of the running mutation
Answered == mutation.pc = "fetch" /\ mutation'.pc # "fetch"

\* the step is the end of the running mutation
MutationEnds == mutation.pc = "fetch" /\ mutation'.pc = "ended"

\* the id the running mutation looks its record up by
TargetId == Val(mutation.task).id

\* the local list holds the record the server answered with (no record of
\* the id, for a delete) and no record of the id that is still being saved
LocalConfirmed ==
    /\ mutation.end = "confirmed"
    /\ IF mutation.kind = "deleteTask"
       THEN \A e \in EntriesOf(ui.tasks) : e.id # TargetId
       ELSE /\ confirmedEntry(mutation.kind, Val(mutation.next), mutation.n)
                \in EntriesOf(ui.tasks)
            /\ \A e \in EntriesOf(ui.tasks) : e.id = TargetId => ~e._optimistic

\* the local list holds the record, marked with the error of the last attempt
LocalFailed ==
    /\ mutation.end = "failed"
    /\ \E e \in EntriesOf(ui.tasks) :
            /\ e.id = TargetId
            /\ ~e._optimistic
            /\ e._error = mutation.lastError

\* the local list no longer holds the record, and a reload was started
LocalDropped ==
    /\ mutation.end = "failed"
    /\ \A e \in EntriesOf(ui.tasks) : e.id # TargetId
    /\ loads # <<>>
    /\ loads[Len(loads)].pc = "fetch"
    /\ ui.loading

(***************************************************************************)
(* C18.  The client sends a mutation request again only after a transient  *)
(* failure: when a create, update or delete request is answered with 400   *)
(* or 404 no further request is sent for that mutation, which ends, marked *)
(* failed, with that answer.                                               *)
(***************************************************************************)
C18_ResendOnlyAfterTransient ==
    [][/\ Resends => mutation.lastStatus \notin {400, 404}
       /\ (Answered /\ mutation'.lastStatus \in {400, 404})
            => (mutation'.pc = "ended" /\ mutation'.end = "failed")]_vars

(***************************************************************************)
(* C19.  Every list load and every mutation of the client sends at most 3  *)
(* requests and then ends, whatever is answered: a list load with data set *)
(* and loading false, with error set and loading false, or aborted; a      *)
(* mutation with the local record confirmed or marked failed.  This is the *)
(* last part: the step that ends a mutation leaves the local record        *)
(* confirmed or marked failed.                                             *)
(***************************************************************************)
C19_MutationEndsConfirmedOrFailed ==
    [][MutationEnds => (LocalConfirmed' \/ LocalFailed')]_vars

\* The rest of C19, which the client does keep: at most 3 requests for each
\* load and mutation, each of them ends, a load ends in one of the three
\* ways, and a mutation ends with its record confirmed or marked failed
\* unless it is a saveEdit whose last answer is 404 (the record is dropped
\* and a reload started) or a list load has replaced the local list
\* meanwhile (no record of that id is left marked as being saved).
C19_LoadEndsWell(k) ==
    (loads[k].pc # "returned" /\ loads'[k].pc = "returned")
        => \/ /\ loads'[k].end = "data"
              /\ ~ui'.loading
              /\ shown' = k
           \/ /\ loads'[k].end = "error"
              /\ ~ui'.loading
              /\ ~IsNull(ui'.error)
           \/ /\ loads'[k].end = "aborted"
              /\ loads[k].aborted
              /\ ui' = ui

C19_Bounded ==
    /\ mutation.sent <= attempts
    /\ \A k \in 1..Len(loads) : loads[k].sent <= attempts

C19_Ends ==
    /\ \A k \in 1..MaxCalls :
            (Len(loads) >= k) ~> (Len(loads) >= k /\ loads[k].pc = "returned")
    /\ MutationRunning ~> (mutation.pc = "ended")

C19_AtMostThreeRequestsThenEnds ==
    /\ []C19_Bounded
    /\ [][\A k \in 1..Len(loads) : C19_LoadEndsWell(k)]_vars
    /\ [][MutationEnds =>
            \/ LocalConfirmed'
            \/ LocalFailed'
            \/ (mutation.kind = "saveEdit" /\ mutation'.lastStatus = 404 /\ LocalDropped')
            \/ /\ mutation.replaced
               /\ \A e \in EntriesOf(ui'.tasks) : e.id = TargetId => ~e._optimistic]_vars
    /\ C19_Ends

\* a mutation that sent three requests and ended marked failed, after a list
\* load that ended with its data shown
C19_Witness ==
    /\ mutation.pc = "ended"
    /\ mutation.sent = attempts
    /\ LocalFailed
    /\ ~mutation.replaced
    /\ \E k \in 1..Len(loads) : loads[k].end = "data" /\ loads[k].sent = attempts

(***************************************************************************)
(* C20.  When a newer call of fetchData / loadTasks has superseded a call  *)
(* that is in flight or waiting between attempts, the older call sends no  *)
(* further request and writes no UI state (data, total, tasks, error,      *)
(* loading), and the list shown is only ever set by the newest call.       *)
(***************************************************************************)
C20_SupersededLoadIsSilent ==
    [][/\ \A k \in 1..Len(loads) :
            (k < Len(loads) /\ Len(loads') = Len(loads) /\ loads'[k] # loads[k])
                => /\ ui' = ui
                   /\ shown' = shown
                   /\ loads'[k].sent = loads[k].sent
       /\ shown' # shown => shown' = Len(loads')]_vars

\* the first call was superseded after it had sent a request, and ended
\* aborted; the second call has set the list
C20_Witness ==
    /\ Len(loads) >= 2
    /\ loads[1].end = "aborted"
    /\ loads[1].sent >= 2
    /\ loads[2].end = "data"
    /\ shown = 2
    /\ ~ui.loading

(***************************************************************************)
(* C21.  When a create request of the client succeeds, the local task list *)
(* afterwards holds the record the server answered with in place of the    *)
(* optimistic TEMP record, and no record of it that is flagged optimistic, *)
(* whatever list reloads happened while the request was in flight;         *)
(* likewise a successful update leaves the server record in place of the   *)
(* optimistic one.                                                         *)
(***************************************************************************)
C21_SuccessShowsServerRecord ==
    [][(/\ MutationEnds
        /\ mutation'.end = "confirmed"
        /\ mutation.kind \in {"createTask", "setCompleted", "saveEdit"})
            => /\ confirmedEntry(mutation.kind, Val(mutation.next), mutation.n)
                    \in EntriesOf(ui'.tasks)
               /\ \A e \in EntriesOf(ui'.tasks) :
                    e.id \in {TargetId, CreatedTaskId(mutation.n)} => ~e._optimistic]_vars

(***************************************************************************)
(* C22.  When a create of the client fails for good, its local record      *)
(* stays in the list, is no longer flagged optimistic, carries the error   *)
(* and keeps its TEMP id and fields; a manual retry is started only for a  *)
(* record with a TEMP id, and a manual retry that succeeds leaves the      *)
(* record of the answer in the list.                                       *)
(***************************************************************************)
C22_FailedCreateCanBeRetried ==
    [][/\ (MutationEnds /\ mutation.kind = "createTask" /\ mutation'.end = "failed")
            => \E e \in EntriesOf(ui'.tasks) :
                    /\ e.id = TargetId
                    /\ e.id[1] = "TEMP"
                    /\ e.completed = Val(mutation.task).completed
                    /\ ~e._optimistic
                    /\ e._error = mutation'.lastError
       /\ (mutation'.kind = "retryCreateOptimistic" /\ mutation'.pc = "fetch"
           /\ mutation.pc = "ended")
            => Val(mutation'.task).id[1] = "TEMP"
       /\ (MutationEnds /\ mutation.kind = "retryCreateOptimistic"
           /\ mutation'.end = "confirmed")
            => confirmedEntry(mutation.kind, Val(mutation.next), mutation.n)
                    \in EntriesOf(ui'.tasks)]_vars

(***************************************************************************)
(* C23.  Whenever an update or a delete of the client is answered 404, the *)
(* client removes that task from its local list: the mutation does not end *)
(* with the task kept or put back as a failed record.                      *)
(***************************************************************************)
C23_NotFoundDropsRecord ==
    [][(/\ MutationEnds
        /\ mutation.kind \in {"setCompleted", "saveEdit", "deleteTask"}
        /\ mutation'.lastStatus = 404)
            => \A e \in EntriesOf(ui'.tasks) : e.id # TargetId]_vars

\* the step is a successful create or delete of a contact
ContactWritten == res'.op \in {"createContact", "deleteContact"} /\ res'.status = "ok"

\* the step is a successful create, update or delete of a task
TaskWritten ==
    res'.op \in {"createTask", "updateTask", "deleteTask"} /\ res'.status = "ok"

\* the step is a list or a get on a store that was seeded before it
ReadsSeeded ==
    \/ res'.op \in {"listContacts", "getContact"} /\ ~IsNull(CONTACTS_CACHE)
    \/ res'.op = "listTasks" /\ ~IsNull(TASKS_CACHE)

(***************************************************************************)
(* C24.  With the calls made one at a time: after every successful create, *)
(* update or delete the file of that collection holds exactly the          *)
(* in-memory list, and a list or get on a store that is already seeded     *)
(* writes no file and leaves the in-memory lists as they were, contents    *)
(* and order.                                                              *)
(***************************************************************************)
C24_FileFollowsCache ==
    [][/\ ContactWritten => readJson(contactsFile') = CONTACTS_CACHE'
       /\ TaskWritten => readJson(tasksFile') = TASKS_CACHE'
       /\ ReadsSeeded => UNCHANGED <<CONTACTS_CACHE, TASKS_CACHE, contactsFile,
                                     tasksFile>>]_vars

\* a successful deleteTask that left tasks in the list, the file holding them
C24_Witness ==
    /\ res.op = "deleteTask"
    /\ res.status = "ok"
    /\ Len(Val(TASKS_CACHE)) >= 1
    /\ readJson(tasksFile) = TASKS_CACHE

\* the step is a deleteContact of a contact the loaded collection holds
DeletesExisting ==
    /\ res'.op = "deleteContact"
    /\ Val(res'.arg) \in ContactIdsOf(CONTACTS_CACHE)

(***************************************************************************)
(* C25.  deleteContact of an existing contact succeeds and removes the     *)
(* contact from cache and file even when the read or the write of the task *)
(* file fails in the cascade; the other failures reach the caller: an      *)
(* unknown id as NotFoundError, a failed write of the contact file as the  *)
(* error of the write.                                                     *)
(***************************************************************************)
C25_CascadeFailureSwallowed ==
    [][/\ (DeletesExisting /\ fault' \in {"none", "tasksRead", "tasksWrite"})
            => /\ res'.status = "ok"
               /\ Val(res'.arg) \notin ContactIdsOf(CONTACTS_CACHE')
               /\ Val(res'.arg) \notin ContactIdsOf(contactsFile')
       /\ (DeletesExisting /\ fault' = "contactsWrite") => res'.status = "IOError"
       /\ (res'.op = "deleteContact" /\ ~IsNull(CONTACTS_CACHE) /\ ~DeletesExisting)
            => res'.status = "NotFoundError"]_vars

\* a deleteContact that succeeded although the write of the task file
\* failed, the file still holding a task of the contact
C25_Witness ==
    /\ res.op = "deleteContact"
    /\ res.status = "ok"
    /\ fault = "tasksWrite"
    /\ Val(res.arg) \notin ContactIdsOf(CONTACTS_CACHE)
    /\ \E i \in 1..Len(OrElse(tasksFile, <<>>)) :
            Val(tasksFile)[i].contactId = Val(res.arg)

\* the number after the prefix of an id
SuffixOf(id) == DigitsValue(Tail(id))

\* the largest number after the prefix among the ids of a list, 0 if none
LargestSuffix(records) ==
    LET nums == {SuffixOf(records[i].id) : i \in 1..Len(records)} \cup {0}
    IN  CHOOSE n \in nums : \A k \in nums : k <= n

\* the step is a successful create
Creates == res'.op \in {"createContact", "createTask"} /\ res'.status = "ok"

\* the call before the step was the successful delete, from the collection
\* the step creates in, of the record with the largest number
DeletedTheLargest ==
    /\ res.status = "ok"
    /\ \/ /\ res.op = "deleteContact" /\ res'.op = "createContact"
          /\ SuffixOf(Val(res.arg)) > LargestSuffix(Val(CONTACTS_CACHE))
       \/ /\ res.op = "deleteTask" /\ res'.op = "createTask"
          /\ SuffixOf(Val(res.arg)) > LargestSuffix(Val(TASKS_CACHE))

\* the record deleted before the step had the number that follows the
\* largest number left in the collection
DeletedTheNext ==
    /\ DeletedTheLargest
    /\ SuffixOf(Val(res.arg)) = 1 + LargestSuffix(Val(res'.prev))

(***************************************************************************)
(* C26.  The number in a new id is 1 + the largest number among the ids of *)
(* the records the collection holds at that time, 0 if it holds none: a    *)
(* create in a collection that was emptied returns number 1, and a create  *)
(* right after the record with the largest number was deleted returns the  *)
(* id of that record again when its number followed the largest number     *)
(* left in the collection.                                                 *)
(***************************************************************************)
C26_IdIsLargestPlusOne ==
    [][Creates =>
        /\ SuffixOf(Val(res'.out).id) = 1 + LargestSuffix(Val(res'.prev))
        /\ DeletedTheNext => Val(res'.out).id = Val(res.arg)
        /\ Val(res'.prev) = <<>> => SuffixOf(Val(res'.out).id) = 1]_vars

\* as stated: a create after the record with the largest number was deleted
\* returns the id of that record again, whatever numbers are left
C26_DeletedLargestIdReturns ==
    [][Creates /\ DeletedTheLargest => Val(res'.out).id = Val(res.arg)]_vars

\* a contact created in a collection emptied by a delete, under the id the
\* deleted contact had
C26_Witness ==
    /\ res.op = "createContact"
    /\ res.status = "ok"
    /\ Val(res.prev) = <<>>
    /\ Val(res.out).id = ContactId(1)
    /\ ContactId(1) \in known.goneContacts \cup {c.id : c \in known.contacts}
    /\ now = StartTime + 2

\* the step is an updateTask call whose title is given and empty once trimmed
UpdatesBlankTitle ==
    /\ res'.op = "updateTask"
    /\ ~IsNull(Val(res'.arg)[2].title)
    /\ trim(Val(Val(res'.arg)[2].title)) = <<>>

\* the step is an updateTask call on an id the collection does not hold
UpdatesUnknownId ==
    /\ res'.op = "updateTask"
    /\ Val(res'.arg)[1] \notin TaskIdsOf(TASKS_CACHE')

\* a field of the updated record: the given value, else the previous one
GivenOr(given, previous) == IF IsNull(given) THEN previous ELSE Val(given)

\* the updated record keeps the title, takes the other given fields and the
\* current time, and is in the collection and on file
BlankTitleUpdateApplied ==
    LET updates == Val(res'.arg)[2]
        prev == Val(res'.prev)
        next == Val(res'.out)
    IN  /\ next.title = prev.title
        /\ next.completed = GivenOr(updates.completed, prev.completed)
        /\ next.priority = GivenOr(updates.priority, prev.priority)
        /\ next.notes = (IF IsNull(updates.notes) THEN prev.notes ELSE updates.notes)
        /\ next.dueDate = (IF IsNull(updates.dueDate) THEN prev.dueDate
                           ELSE updates.dueDate)
        /\ next.id = prev.id
        /\ next.contactId = prev.contactId
        /\ next.createdAt = prev.createdAt
        /\ next.updatedAt = now'
        /\ now' > now
        /\ \E i \in 1..Len(Val(TASKS_CACHE')) : Val(TASKS_CACHE')[i] = next
        /\ tasksFile' = TASKS_CACHE'

(***************************************************************************)
(* C27.  An updateTask call whose title is empty once trimmed is never     *)
(* rejected for it: unless the simulated failure is drawn, a call on an id *)
(* of the collection succeeds, keeps the previous title, applies the other *)
(* given fields, refreshes updatedAt and persists.  An updateTask call on  *)
(* an id the collection does not hold changes nothing and ends with        *)
(* NotFoundError, or with TransientError when the simulated failure, which *)
(* is drawn before the id is looked up, is raised.                         *)
(***************************************************************************)
C27_BlankTitleKeepsTitle ==
    [][/\ UpdatesBlankTitle =>
            /\ res'.status # "ValidationError"
            /\ (~roulette' /\ ~UpdatesUnknownId) => res'.status = "ok"
            /\ res'.status = "ok" => BlankTitleUpdateApplied
       /\ UpdatesUnknownId =>
            /\ res'.status = (IF roulette' THEN "TransientError" ELSE "NotFoundError")
            /\ TaskCollectionKept]_vars

\* a completed task reopened by an update whose title is blank, and an
\* earlier update of an id the collection does not hold
C27_Witness ==
    /\ res.op = "updateTask"
    /\ res.status = "ok"
    /\ Val(res.arg)[2].title = Some(sBlank)
    /\ Val(res.prev).completed = TRUE
    /\ Val(res.out).completed = FALSE
    /\ Val(res.out).title = Val(res.prev).title
    /\ Val(res.out).updatedAt > Val(res.prev).updatedAt

\* an update of an id the collection does not hold that ended with
\* NotFoundError
C27_WitnessUnknown ==
    /\ res.op = "updateTask"
    /\ res.status = "NotFoundError"
    /\ Val(res.arg)[1] = UnknownTaskId
    /\ Len(Val(TASKS_CACHE)) >= 1

\* C27 as stated: the call with the blank title does not fail, and the call
\* on an unknown id fails with NotFoundError
C27_BlankTitleNeverFails ==
    [][/\ (UpdatesBlankTitle /\ ~UpdatesUnknownId) => res'.status = "ok"
       /\ UpdatesUnknownId => res'.status = "NotFoundError"]_vars

(***************************************************************************)
(* The contacts page alone: it is opened with some saved preferences and   *)
(* the user works its controls.                                            *)
(***************************************************************************)
InitControls ==
    /\ InitStore({[contacts |-> Null, tasks |-> Null]}, StartTime)
    /\ NoClient
    /\ \E storage \in SavedPreferences : controls = NoControls(storage)
    /\ ops = NoOps

NextControls ==
    \/ Page(MountEffects)
    \/ \E text \in SearchTexts : Page(TypeSearch(text))
    \/ \E key \in SortChoices : Page(SelectSortBy(key))
    \/ \E order \in SortOrders : Page(SelectSortOrder(order))
    \/ \E size \in PageSizes : Page(SelectPageSize(size))
    \/ \E key \in SortChoices : Page(handleHeaderSort(key))
    \/ Page(PreviousPage)
    \/ \E totalPages \in 1..MaxPages : Page(NextPage(totalPages))
    \/ \E density \in Densities : Page(ClickDensity(density))
    \/ \E key \in Keys : \E modified \in BOOLEAN : \E typing \in BOOLEAN :
            Page(KeyDown(key, modified, typing))
    \/ Page(ClickReset)
    \/ Page(resetAllControls)
    \/ \E id \in 1..MaxToasts : Page(ToastTimeout(id))

SpecControls == InitControls /\ [][NextControls]_vars

(***************************************************************************)
(* The contacts page when the user changes the query, turns the pages and  *)
(* presses Reset All, with every timer firing in the end.                  *)
(***************************************************************************)
NextReset ==
    \/ Page(MountEffects)
    \/ \E text \in SearchTexts : Page(TypeSearch(text))
    \/ \E key \in SortChoices : Page(SelectSortBy(key))
    \/ \E order \in SortOrders : Page(SelectSortOrder(order))
    \/ \E size \in PageSizes : Page(SelectPageSize(size))
    \/ \E totalPages \in 1..MaxPages : Page(NextPage(totalPages))
    \/ Page(resetAllControls)
    \/ \E id \in 1..MaxToasts : Page(ToastTimeout(id))

\* every timer fires
ResetFairness == \A id \in 1..MaxToasts : WF_vars(Page(ToastTimeout(id)))

SpecResetLive == InitControls /\ [][NextReset]_vars /\ ResetFairness

(***************************************************************************)
(* What the last event of the contacts page was, for the properties below. *)
(***************************************************************************)
\* aria-pressed of a density button
pressed(button) == controls.density = button

\* the last event was the key 'd' or 'D', pressed without a modifier key and
\* outside an input
PressedD ==
    /\ controls.last.event = "keydown"
    /\ controls.last.key \in {"d", "D"}
    /\ ~controls.last.modified
    /\ ~controls.last.typing

\* the last event was the key 'd' or 'D' pressed inside an input
TypedD ==
    /\ controls.last.event = "keydown"
    /\ controls.last.key \in {"d", "D"}
    /\ controls.last.typing

ClickedDensity == controls.last.event = "density"

(***************************************************************************)
(* C28.  On the contacts page the row density is always exactly one of     *)
(* comfortable and compact, so that exactly one density button is pressed, *)
(* and it is comfortable at the first render.  A click on a density button *)
(* selects that density; the key 'd' pressed outside an input switches to  *)
(* the other density and inside an input leaves the density; two presses   *)
(* in a row restore the density.                                           *)
(***************************************************************************)
C28_ExactlyOneDensity ==
    /\ controls.density = "comfortable"
    /\ Cardinality({button \in Densities : pressed(button)}) = 1
    /\ [][/\ controls'.density \in Densities
          /\ Cardinality({button \in Densities : pressed(button)'}) = 1
          /\ ClickedDensity' => controls'.density = controls'.last.key
          /\ PressedD' => {controls'.density} = Densities \ {controls.density}
          /\ TypedD' => controls'.density = controls.density
          /\ (PressedD /\ PressedD') => controls'.density = controls.was]_vars

\* the key 'd' has brought a page that was compact, by its saved preference
\* or by a click, back to comfortable
C28_Witness ==
    /\ PressedD
    /\ controls.density = "comfortable"
    /\ controls.was = "compact"
    /\ pressed("comfortable")
    /\ ~pressed("compact")
    /\ controls.storage.contactsRowDensity = Some("comfortable")

\* the toast with this id is on the page
ToastShown(id) == \E i \in 1..Len(controls.toasts) : controls.toasts[i].id = id

\* the toast Reset All shows last is the success toast 'Preferences cleared'
ClearedToastShown ==
    /\ controls.toasts # <<>>
    /\ LET toast == controls.toasts[Len(controls.toasts)]
       IN  /\ toast.message = sPreferencesCleared
           /\ toast.type = "success"
           /\ toast.id = controls.made
           /\ toast.id \in controls.timers

ControlsAreDefault ==
    /\ controls.q = <<>>
    /\ controls.sortBy = "lastActivityAt"
    /\ controls.sortOrder = "desc"
    /\ controls.pageSize = 50
    /\ controls.page = 1

(***************************************************************************)
(* C29.  From any state of the controls of the contacts page, Reset All    *)
(* leaves the search text empty, sortBy = lastActivityAt, sortOrder =      *)
(* desc, pageSize = 50 and page = 1 and shows a success toast 'Preferences *)
(* cleared'; every toast shown is removed again once its timer has fired.  *)
(***************************************************************************)
C29_ResetAllRestoresDefaults ==
    /\ [][controls'.last.event = "resetAll" /\ controls' # controls
            => /\ ControlsAreDefault'
               /\ ClearedToastShown'
               /\ Len(controls'.toasts) = Len(controls.toasts) + 1]_vars
    /\ \A id \in 1..MaxToasts : ToastShown(id) ~> ~ToastShown(id)

\* Reset All pressed while a search text, another sort field and another
\* page size were set: the defaults are back, saved again, and the toast is up
C29_Witness ==
    /\ controls.last.event = "resetAll"
    /\ ControlsAreDefault
    /\ ClearedToastShown
    /\ controls.storage.contactsQuery = Some(<<>>)
    /\ controls.storage.contactsSortBy = Some("lastActivityAt")
    /\ controls.storage.contactsPageSize = Some(NatToString(50))

(***************************************************************************)
(* Task operations of one process that overlap (src/src/services/tasks.ts  *)
(* 158-225 over src/unnamed/part_000 23-28).  An operation is suspended at *)
(* its latency delay and, inside writeJson, at ensureDir and at            *)
(* fs.writeFile; what lies between two suspensions runs as one step.       *)
(* fs.writeFile opens the file, which truncates it, and then writes the    *)
(* text from the start of the file, as two requests to the thread pool:    *)
(* the requests of two calls are served in any order.  The records of this *)
(* run have texts of one length, so that a text is longer than another     *)
(* when its list is.                                                       *)
(***************************************************************************)
\* the task the collection holds when the operations start
FirstTask ==
    newTask(<<>>, CHOOSE i \in TaskInputsFor(FileBo.id) : i.title = Some(sCall),
            sCall, StartTime)

\* a file whose text is no JSON: what is left of texts written over each
\* other, as long as the text of a list of n records
Unparsable(n) == Some(<<[torn |-> n]>>)

IsUnparsable(file) ==
    /\ ~IsNull(file)
    /\ Val(file) # <<>>
    /\ "torn" \in DOMAIN Val(file)[1]

\* the length of the text of a file, in records
lengthOf(file) ==
    IF IsNull(file) THEN 0
    ELSE IF IsUnparsable(file) THEN Val(file)[1].torn
    ELSE Len(Val(file))

\* the file after the text of a list was written from its start: the text,
\* followed by what the file held beyond its length
written(file, list) ==
    IF Len(list) >= lengthOf(file) THEN Some(list)
    ELSE Unparsable(lengthOf(file))

OpInputs ==
    {[op |-> "createTask",
      arg |-> CHOOSE i \in TaskInputsFor(FileBo.id) : i.title = Some(sCall)]}
    \cup {[op |-> "deleteTask", arg |-> id] : id \in TaskIdsOf(TASKS_CACHE)}

\* the call of createTask / deleteTask, up to the latency delay
StartOp(p, input) ==
    /\ ops[p].pc = "idle"
    /\ ops' = [ops EXCEPT ![p] = [pc |-> "latency", op |-> input.op,
                                  arg |-> Some(input.arg), json |-> Null,
                                  out |-> Null]]
    /\ UNCHANGED <<TASKS_CACHE, tasksFile, now>>

\* from the end of the delay to the await of ensureDir in writeJson: the
\* failure draw, the change of the list, the call of writeJson
WakeOp(p) ==
    LET tasks == Val(TASKS_CACHE)
        arg == Val(ops[p].arg)
    IN  /\ ops[p].pc = "latency"
        /\ UNCHANGED tasksFile
        /\ \E fails \in FailureDraws :
            IF fails
            THEN /\ ops' = [ops EXCEPT ![p].pc = "TransientError"]
                 /\ UNCHANGED <<TASKS_CACHE, now>>
            ELSE IF ops[p].op = "createTask"
            THEN \E t \in ClockDraws :
                    /\ now' = t
                    /\ TASKS_CACHE' =
                          Some(Append(tasks, newTask(tasks, arg, trim(Val(arg.title)), t)))
                    /\ ops' = [ops EXCEPT ![p].pc = "ensureDir"]
            ELSE IF FindIndex(tasks, arg) = 0
            THEN /\ ops' = [ops EXCEPT ![p].pc = "NotFoundError"]
                 /\ UNCHANGED <<TASKS_CACHE, now>>
            ELSE /\ now' \in ClockDraws
                 /\ TASKS_CACHE' = Some(RemoveAt(tasks, FindIndex(tasks, arg)))
                 /\ ops' = [ops EXCEPT ![p].pc = "ensureDir"]

\* writeJson after ensureDir: JSON.stringify of the list as it is by now, and
\* the call of fs.writeFile
StringifyOp(p) ==
    /\ ops[p].pc = "ensureDir"
    /\ ops' = [ops EXCEPT ![p].pc = "open", ![p].json = TASKS_CACHE]
    /\ UNCHANGED <<TASKS_CACHE, tasksFile, now>>

\* fs.writeFile: the file is opened with flag 'w'
OpenOp(p) ==
    /\ ops[p].pc = "open"
    /\ tasksFile' = Unparsable(0)
    /\ ops' = [ops EXCEPT ![p].pc = "write"]
    /\ UNCHANGED <<TASKS_CACHE, now>>

\* fs.writeFile: the text is written and the operation returns
WriteOp(p) ==
    /\ ops[p].pc = "write"
    /\ tasksFile' = written(tasksFile, Val(ops[p].json))
    /\ ops' = [ops EXCEPT ![p].pc = "done"]
    /\ UNCHANGED <<TASKS_CACHE, now>>

Overlapped(A) ==
    /\ A
    /\ UNCHANGED <<CONTACTS_CACHE, contactsFile, horizon, res, repeated, roulette,
                   known, hist, fault, controls>>
    /\ UNCHANGED clientVars

\* the process after a first list call has loaded both files
InitOverlap ==
    /\ CONTACTS_CACHE = Some(<<FileBo>>)
    /\ contactsFile = Some(<<FileBo>>)
    /\ TASKS_CACHE = Some(<<FirstTask>>)
    /\ tasksFile = Some(<<FirstTask>>)
    /\ now = StartTime
    /\ horizon = StartTime + MaxOverlap
    /\ res = Result("none", "none", Null, Null, Null)
    /\ repeated = FALSE
    /\ roulette = FALSE
    /\ known = [contacts |-> {}, tasks |-> {}, goneContacts |-> {}, goneTasks |-> {}]
    /\ hist = [created |-> {}, tasked |-> {}, cascaded |-> {}, removed |-> {}]
    /\ fault = "none"
    /\ NoClient
    /\ controls = NoControls(NoStorage)
    /\ ops = NoOps

NextOverlap ==
    \/ \E p \in 1..MaxOverlap : \E input \in OpInputs : Overlapped(StartOp(p, input))
    \/ \E p \in 1..MaxOverlap : Overlapped(WakeOp(p))
    \/ \E p \in 1..MaxOverlap : Overlapped(StringifyOp(p))
    \/ \E p \in 1..MaxOverlap : Overlapped(OpenOp(p))
    \/ \E p \in 1..MaxOverlap : Overlapped(WriteOp(p))

SpecOverlap == InitOverlap /\ [][NextOverlap]_vars

\* no operation is under way and at least two have changed the list
AllCompleted ==
    /\ \A p \in 1..MaxOverlap :
            ops[p].pc \in {"idle", "done", "TransientError", "NotFoundError"}
    /\ Cardinality({p \in 1..MaxOverlap : ops[p].pc = "done"}) >= 2

(***************************************************************************)
(* C30.  When several mutating operations on the task collection of one    *)
(* process overlap, then once all of them have completed the file holds    *)
(* exactly the list in memory.                                             *)
(***************************************************************************)
C30_FileHoldsMemoryList == AllCompleted => tasksFile = TASKS_CACHE

\* the input of the createTask call of the step is bad: its contactId matches
\* no contact, or its title is empty or too long once trimmed
BadTaskInput ==
    LET input == Val(res'.arg)
        title == IF IsNull(input.title) THEN <<>> ELSE trim(Val(input.title))
    IN  \/ input.contactId \notin ContactIdsOf(CONTACTS_CACHE')
        \/ title = <<>>
        \/ Len(title) > MaxTitleLength

(***************************************************************************)
(* C31.  A createTask call ends with ValidationError, HTTP 400, only when  *)
(* its input is bad: the contactId matches no contact, or the trimmed      *)
(* title is empty or longer than 120 characters.                           *)
(***************************************************************************)
C31_ValidationErrorMeansBadInput ==
    [][(res'.op = "createTask"
            /\ (res'.status = "ValidationError" \/ httpStatus' = 400))
        => BadTaskInput]_vars

(***************************************************************************)
(* The calls of Next in a process that starts over each kind of data       *)
(* directory: a file absent, holding an empty list, or holding records.    *)
(***************************************************************************)
SeedFiles ==
    {[contacts |-> c, tasks |-> t] :
        c \in {Null, Some(<<>>), Some(<<FileBo>>)},
        t \in {Null, Some(<<>>), Some(<<FileTask>>)}}

InitSeed == InitWith(SeedFiles, StartTime + 1)

SpecSeed == InitSeed /\ [][Next]_vars

\* the step is a call that goes through ensureSeeded of the contact store and
\* does not change the contact list
UsesContacts ==
    /\ res'.op \in {"listContacts", "getContact", "createContact", "deleteContact",
                    "createTask"}
    /\ ~(res'.op \in {"createContact", "deleteContact"} /\ res'.status = "ok")

\* the step is a call that goes through ensureSeeded of the task store and
\* does not change the task list
UsesTasks ==
    /\ res'.op \in {"listTasks", "createTask", "updateTask", "deleteTask"}
    /\ res'.status # "ok" \/ res'.op = "listTasks"

\* the file is absent or holds an empty list
NothingOnFile(file) == IsNull(file) \/ Val(file) = <<>>

TasksOf(list, contactId) ==
    {list[i] : i \in {k \in 1..Len(list) : list[k].contactId = contactId}}

\* the step is a deleteContact call that succeeded
DeletesContact == res'.op = "deleteContact" /\ res'.status = "ok"

(***************************************************************************)
(* C33.  deleteContact leaves the list of the task store in memory as it   *)
(* is: when the task store was seeded before the deletion, the list in     *)
(* memory still holds every task of the deleted contact afterwards, while  *)
(* the task file holds none of them.                                       *)
(***************************************************************************)
C33_CascadeSkipsMemory ==
    [][DeletesContact =>
        /\ TASKS_CACHE' = TASKS_CACHE
        /\ TasksOf(Val(tasksFile'), Val(res'.arg)) = {}
        /\ ~IsNull(TASKS_CACHE) =>
              TasksOf(Val(TASKS_CACHE'), Val(res'.arg))
                  = TasksOf(Val(TASKS_CACHE), Val(res'.arg))]_vars

\* a contact deleted whose task is still in memory and no longer on file
C33_Witness ==
    /\ res.op = "deleteContact"
    /\ res.status = "ok"
    /\ ~IsNull(TASKS_CACHE)
    /\ TasksOf(Val(TASKS_CACHE), Val(res.arg)) # {}
    /\ TasksOf(Val(tasksFile), Val(res.arg)) = {}

(***************************************************************************)
(* C34.  Once deleteContact(id) has removed the tasks of contact id from   *)
(* the task file, no later operation puts a task with that contactId back  *)
(* into the file as long as no contact is created with that id again.      *)
(* hist.removed holds the ids deleted and not given out again since.       *)
(***************************************************************************)
C34_CascadedTasksStayOffFile ==
    [][\A id \in hist.removed \cap hist'.removed :
            TasksOf(TasksOnFile, id) = {} => TasksOf(TasksOnFile', id) = {}]_vars

\* the step is a task write that ends with an error of the store
FailedTaskWrite ==
    /\ res'.op \in {"createTask", "updateTask", "deleteTask"}
    /\ res'.status \in {"TransientError", "NotFoundError", "ValidationError"}

(***************************************************************************)
(* C35.  A createTask, updateTask or deleteTask call that ends with        *)
(* TransientError, NotFoundError or ValidationError leaves the task list   *)
(* in memory and the task file as they were before the call; when it is    *)
(* the first task call of the process, the list in memory is the one       *)
(* loaded from the file, and a file that was absent holds the empty list.  *)
(***************************************************************************)
C35_FailedWriteKeepsCollection ==
    [][FailedTaskWrite =>
        IF IsNull(TASKS_CACHE)
        THEN /\ Val(TASKS_CACHE') = OrElse(tasksFile, <<>>)
             /\ tasksFile' = Some(OrElse(tasksFile, <<>>))
        ELSE /\ TASKS_CACHE' = TASKS_CACHE
             /\ tasksFile' = tasksFile]_vars

\* a deleteTask of an unknown id that failed with NotFoundError in a process
\* that holds a task
C35_Witness ==
    /\ res.op = "deleteTask"
    /\ res.status = "NotFoundError"
    /\ Val(res.arg) = UnknownTaskId
    /\ Len(Val(TASKS_CACHE)) >= 1
    /\ tasksFile = TASKS_CACHE

\* C35 as stated: the list in memory and the file are exactly what they were
C35_FailedWriteChangesNothing ==
    [][FailedTaskWrite =>
        (TASKS_CACHE' = TASKS_CACHE /\ tasksFile' = tasksFile)]_vars

(***************************************************************************)
(* createContact calls of one process that overlap                         *)
(* (src/src/services/contacts.ts 143-153, 223-250).  A call is suspended   *)
(* in ensureSeeded at readJson, and at writeJson when it seeds, and at the *)
(* writeJson that ends it; between two suspensions it runs as one step.    *)
(***************************************************************************)
\* createContact from the end of ensureSeeded to its writeJson, over the list
\* CONTACTS_CACHE holds at that point
createInto(p, input, contacts) ==
    LET firstName == trim(input.firstName)
        lastName == trim(input.lastName)
        email == trim(input.email)
    IN  IF firstName = <<>> \/ lastName = <<>> \/ email = <<>>
           \/ emailTaken(contacts, email)
        THEN /\ CONTACTS_CACHE' = Some(contacts)
             /\ ops' = [ops EXCEPT ![p] = [pc |-> "ValidationError",
                                           op |-> "createContact",
                                           arg |-> Some(input), json |-> Null,
                                           out |-> Null]]
             /\ UNCHANGED now
        ELSE \E t \in ClockDraws :
             LET contact == newContact(contacts, input, t)
             IN  /\ now' = t
                 /\ CONTACTS_CACHE' = Some(<<contact>> \o contacts)
                 /\ ops' = [ops EXCEPT ![p] = [pc |-> "writeJson",
                                               op |-> "createContact",
                                               arg |-> Some(input),
                                               json |-> Some(<<contact>> \o contacts),
                                               out |-> Some(contact)]]

\* the call, up to its first suspension
StartCreate(p, input) ==
    /\ ops[p].pc = "idle"
    /\ UNCHANGED contactsFile
    /\ IF IsNull(CONTACTS_CACHE)
       THEN /\ ops' = [ops EXCEPT ![p] = [pc |-> "readJson", op |-> "createContact",
                                          arg |-> Some(input), json |-> Null,
                                          out |-> Null]]
            /\ UNCHANGED <<CONTACTS_CACHE, now>>
       ELSE createInto(p, input, Val(CONTACTS_CACHE))

\* readJson of ensureSeeded reads the file
ReadCreate(p) ==
    /\ ops[p].pc = "readJson"
    /\ ops' = [ops EXCEPT ![p].pc = "ensureSeeded", ![p].json = Some(readJson(contactsFile))]
    /\ UNCHANGED <<CONTACTS_CACHE, contactsFile, now>>

\* ensureSeeded after readJson: the list read becomes CONTACTS_CACHE and the
\* call goes on, or the seed does and is written
ResumeCreate(p) ==
    LET existing == Val(ops[p].json)
    IN  /\ ops[p].pc = "ensureSeeded"
        /\ UNCHANGED contactsFile
        /\ IF ~IsNull(existing) /\ Len(Val(existing)) # 0
           THEN createInto(p, Val(ops[p].arg), Val(existing))
           ELSE \E s \in seedContacts(SeedCount, now) :
                    /\ CONTACTS_CACHE' = Some(s)
                    /\ ops' = [ops EXCEPT ![p].pc = "seedWrite", ![p].json = Some(s)]
                    /\ UNCHANGED now

\* the writeJson of ensureSeeded returns
SeedWritten(p) ==
    /\ ops[p].pc = "seedWrite"
    /\ contactsFile' = writeJson(Val(ops[p].json))
    /\ createInto(p, Val(ops[p].arg), Val(CONTACTS_CACHE))

\* the writeJson of createContact returns, and the call with it
WriteCreate(p) ==
    /\ ops[p].pc = "writeJson"
    /\ contactsFile' = writeJson(Val(ops[p].json))
    /\ ops' = [ops EXCEPT ![p].pc = "done"]
    /\ UNCHANGED <<CONTACTS_CACHE, now>>

OverlappedContacts(A) ==
    /\ A
    /\ UNCHANGED <<TASKS_CACHE, tasksFile, horizon, res, repeated, roulette,
                   known, hist, fault, controls>>
    /\ UNCHANGED clientVars

\* a process that has just started
InitCreates ==
    /\ InitStore(InitFiles, StartTime + MaxOverlap)
    /\ NoClient
    /\ controls = NoControls(NoStorage)
    /\ ops = NoOps

NextCreates ==
    \/ \E p \in 1..MaxOverlap : \E input \in ContactInputs :
            OverlappedContacts(StartCreate(p, input))
    \/ \E p \in 1..MaxOverlap : OverlappedContacts(ReadCreate(p))
    \/ \E p \in 1..MaxOverlap : OverlappedContacts(ResumeCreate(p))
    \/ \E p \in 1..MaxOverlap : OverlappedContacts(SeedWritten(p))
    \/ \E p \in 1..MaxOverlap : OverlappedContacts(WriteCreate(p))

SpecCreates == InitCreates /\ [][NextCreates]_vars

\* the calls that have returned a record
Returned == {p \in 1..MaxOverlap : ops[p].pc = "done"}

\* no call is under way
AllReturned ==
    \A p \in 1..MaxOverlap : ops[p].pc \in {"idle", "done", "ValidationError"}

(***************************************************************************)
(* C36.  When create operations on one collection overlap in one process,  *)
(* two calls that arrive while the store is uninitialized included, the    *)
(* ids they return are pairwise distinct, and every record they returned   *)
(* is in the list in memory once all of them have completed.               *)
(***************************************************************************)
C36_OverlappingCreatesKeepIds ==
    AllReturned =>
        /\ \A p, r \in Returned : p # r => Val(ops[p].out).id # Val(ops[r].out).id
        /\ \A p \in Returned :
                \E i \in 1..Len(Val(CONTACTS_CACHE)) :
                    Val(CONTACTS_CACHE)[i] = Val(ops[p].out)

(***************************************************************************)
(* The create-task form in front of the task store: the tasks page of a    *)
(* contact whose POST requests are served by createTask of the store, one  *)
(* request at a time, and answered with the status of the route.           *)
(***************************************************************************)
SubmitFiles == {[contacts |-> Some(<<FileBo>>), tasks |-> Some(<<FileTask>>)]}

\* the body of the POST
SubmitInput == CHOOSE i \in TaskInputsFor(FileBo.id) : i.title = Some(sHiSpaced)

InitSubmit ==
    /\ InitStore(SubmitFiles, MaxTime)
    /\ mounted = "ContactTasksPage"
    /\ loads = <<>>
    /\ ui = NoUi(mounted)
    /\ shown = 0
    /\ mutation = NoMutation
    /\ controls = NoControls(NoStorage)
    /\ ops = NoOps

\* (the page loads its list once, when it is mounted)
\* POST /api/tasks: createTask runs and the client gets the status
Served(input) ==
    /\ mutation.kind \in {"createTask", "retryCreateOptimistic"}
    /\ mutation.pc = "fetch"
    /\ CreateTask(input)
    /\ repeated' = RepeatsList
    /\ known' = Observed
    /\ fault' = "none"
    /\ MutationAnswer(routeStatus("createTask", res'.status))
    /\ UNCHANGED <<controls, ops>>

NextSubmit ==
    \/ \E title \in EditTitles : Client(ClientCreateTask(title))
    \/ Served(SubmitInput)
    \/ Client(MutationWake)
    \/ \E task \in EntriesOf(ui.tasks) : Client(ClientRetryCreate(task))
    \/ loads = <<>> /\ Client(StartLoad)
    \/ \E k \in 1..Len(loads) : \E status \in Answers : Client(LoadAnswer(k, status))
    \/ \E k \in 1..Len(loads) : \E body \in ListBodies(mounted) :
            Client(LoadJson(k, body))
    \/ \E k \in 1..Len(loads) : Client(LoadWake(k))

SpecSubmit == InitSubmit /\ [][NextSubmit]_vars

\* the tasks the store holds beyond the one it started with
TasksAdded == IF IsNull(TASKS_CACHE) THEN 0 ELSE Len(Val(TASKS_CACHE)) - 1

(***************************************************************************)
(* C37.  One submission of the create-task form, with the requests that    *)
(* withRetry sends again and a later manual retry of the failed record,    *)
(* adds at most one task to the task collection of the server under the    *)
(* simulated failures: the store holds at most one more task per           *)
(* submission, and a request adds a task only when the client takes it as  *)
(* confirmed.                                                              *)
(***************************************************************************)
C37_OneTaskPerSubmission ==
    /\ TasksAdded <= mutation.n
    /\ (TasksAdded = mutation.n /\ mutation.n > 0) => mutation.end = "confirmed"
    /\ mutation.end = "failed" => TasksAdded < mutation.n

\* a submission whose request failed for good, was retried by hand, failed
\* again and then got through: one task was added
C37_Witness ==
    /\ mutation.kind = "retryCreateOptimistic"
    /\ mutation.end = "confirmed"
    /\ mutation.sent >= 2
    /\ TasksAdded = 1
    /\ mutation.n = 1


(***************************************************************************)
(* A DELETE in flight on a tasks page that shows two tasks: while the      *)
(* request is out the list may be loaded again, and the user may tick the  *)
(* checkbox of the other task.                                             *)
(***************************************************************************)
OtherTaskId == <<"T", 2>>

\* what the list request of the page may carry
TwoTaskBodies ==
    {Null,
     Some([data |-> <<Entry(ServerTaskId, FALSE, FALSE, Null),
                      Entry(OtherTaskId, FALSE, FALSE, Null)>>, total |-> 2]),
     Some([data |-> <<Entry(ServerTaskId, FALSE, FALSE, Null)>>, total |-> 1])}

\* setCompleted(task, completed) up to its first await, called for another
\* record while the DELETE is out: the record is marked, the PATCH is sent
SetCompletedMeanwhile(task, completed) ==
    /\ mounted = "ContactTasksPage"
    /\ mutation.kind = "deleteTask"
    /\ mutation.pc \in {"fetch", "sleep"}
    /\ task \in EntriesOf(ui.tasks)
    /\ LET next == [task EXCEPT !.completed = completed]
       IN  ui' = [ui EXCEPT !.tasks =
                     replaceEntry(@, task.id, [next EXCEPT !._optimistic = TRUE])]
    /\ UNCHANGED <<mounted, loads, shown, mutation>>

InitDelete == InitClient /\ mounted = "ContactTasksPage"

NextDelete ==
    \/ Client(StartLoad)
    \/ \E k \in 1..Len(loads) : \E status \in Answers : Client(LoadAnswer(k, status))
    \/ \E k \in 1..Len(loads) : \E body \in TwoTaskBodies : Client(LoadJson(k, body))
    \/ \E k \in 1..Len(loads) : Client(LoadWake(k))
    \/ \E task \in EntriesOf(ui.tasks) : Client(ClientDeleteTask(task))
    \/ \E status \in Answers : Client(MutationAnswer(status))
    \/ Client(MutationWake)
    \/ \E task \in EntriesOf(ui.tasks) : \E completed \in BOOLEAN :
            Client(SetCompletedMeanwhile(task, completed))

SpecDelete == InitDelete /\ [][NextDelete]_vars

\* the step in which the catch block of the client's deleteTask runs
DeleteFailsTerminally ==
    /\ mutation.kind = "deleteTask"
    /\ mutation.end = "none"
    /\ mutation'.end = "failed"

ListedPages ==
    /\ res.op \in {"listContacts", "listTasks"}
    /\ res.status = "ok"
    /\ OrElse(Val(res.arg).pageSize, 50) >= 1

ListedSize == OrElse(Val(res.arg).pageSize, 50)

\* the same query on the same collection, for page p with page size n
PageSized(p, n) ==
    LET params == [Val(res.arg) EXCEPT !.page = Some(p), !.pageSize = Some(n)]
    IN  IF res.op = "listContacts"
        THEN listContactsResult(Val(CONTACTS_CACHE), params)
        ELSE listTasksResult(Val(TASKS_CACHE), params)

ListedPage(p) == PageSized(p, ListedSize)

ListedTotal == ListedPage(1).total

\* ceil(total / pageSize)
PageCount == (ListedTotal + ListedSize - 1) \div ListedSize

RECURSIVE PagesFrom(_, _)
PagesFrom(p, last) ==
    IF p > last THEN <<>> ELSE ListedPage(p).data \o PagesFrom(p + 1, last)

\* the records of the collection the filter of the query lets through
Matching ==
    LET params == Val(res.arg)
        qn == normalize(OrElse(params.q, <<>>))
    IN  IF res.op = "listContacts"
        THEN {c \in EntriesOf(Val(CONTACTS_CACHE)) : ContactPasses(c, qn)}
        ELSE {t \in EntriesOf(Val(TASKS_CACHE)) :
                 TaskPasses(t, params.contactId, params.completed, qn)}

Occurrences(list, x) == Cardinality({j \in 1..Len(list) : list[j] = x})

(***************************************************************************)
(* C39.  For a collection and a query with pageSize >= 1, the data of the  *)
(* pages 1 .. ceil(total / pageSize) one after the other is the whole      *)
(* filtered and sorted list, with each matching record exactly once, and   *)
(* hasNext of a page p >= 1 is true exactly when page p + 1 has data.      *)
(***************************************************************************)
C39_PagesTileTheList ==
    ListedPages =>
        LET all == PagesFrom(1, PageCount)
        IN  /\ all = PageSized(1, ListedTotal + 1).data
            /\ Len(all) = ListedTotal
            /\ \A x \in Matching : Occurrences(all, x) = 1
            /\ \A j \in 1..Len(all) : all[j] \in Matching
            /\ \A p \in 1..(PageCount + 1) :
                  ListedPage(p).hasNext <=> (ListedPage(p + 1).data # <<>>)

\* a list of three records asked for two at a time: two pages, the first of
\* which has a next one
C39_Witness ==
    /\ ListedPages
    /\ ListedSize = 2
    /\ ListedTotal = 3
    /\ PageCount = 2
    /\ ListedPage(1).hasNext
    /\ ~ListedPage(2).hasNext

\* the step of an updateTask that succeeds
UpdatesTask == res'.op = "updateTask" /\ res'.status = "ok"

\* the task list updateTask works on: the in-memory list, loaded by
\* ensureSeeded when this is the first call
ListBeforeUpdate == Val(ensureSeededTasks(TASKS_CACHE, tasksFile).cache)

(***************************************************************************)
(* C40.  An updateTask(id, updates) that succeeds changes only the task    *)
(* with that id in the task list of the store: the list has the same       *)
(* length and order, every other task is as before, the id, contactId and  *)
(* createdAt of the target are as before, the contact collection (list     *)
(* and file) is untouched, and a field that updates does not carry keeps   *)
(* the value stored.                                                       *)
(***************************************************************************)
C40_UpdateChangesOnlyItsTask ==
    [][UpdatesTask =>
        LET before == ListBeforeUpdate
            after == Val(TASKS_CACHE')
            id == Val(res'.arg)[1]
            updates == Val(res'.arg)[2]
            k == FindIndex(before, id)
        IN  /\ k # 0
            /\ Len(after) = Len(before)
            /\ \A j \in 1..Len(before) : j # k => after[j] = before[j]
            /\ after[k].id = before[k].id
            /\ after[k].contactId = before[k].contactId
            /\ after[k].createdAt = before[k].createdAt
            /\ CONTACTS_CACHE' = CONTACTS_CACHE
            /\ contactsFile' = contactsFile
            /\ IsNull(updates.title) => after[k].title = before[k].title
            /\ IsNull(updates.notes) => after[k].notes = before[k].notes
            /\ IsNull(updates.dueDate) => after[k].dueDate = before[k].dueDate
            /\ IsNull(updates.completed) => after[k].completed = before[k].completed
            /\ IsNull(updates.priority) => after[k].priority = before[k].priority
    ]_vars

\* an update that carries completed only was applied to a task with notes, in
\* a list of two tasks
C40_Witness ==
    /\ res.op = "updateTask"
    /\ res.status = "ok"
    /\ Val(res.arg)[2] = OnlyCompleted
    /\ ~IsNull(Val(res.prev).notes)
    /\ Val(res.out).notes = Val(res.prev).notes
    /\ Len(Val(TASKS_CACHE)) >= 2

=============================================================================
